---- MODULE Spec2Model ----
(***************************************************************************)
(* Verification model of the smart-money pipeline (backend/app).           *)
(*                                                                         *)
(* The workers coordinate only through Postgres and Redis, so each worker  *)
(* is modelled over the tables and keys it reads and writes.  Every        *)
(* specification below drives one group of workers and leaves the state of *)
(* the others parked at its initial value.                                 *)
(*                                                                         *)
(* Units: time is in minutes, money in whole US dollars, rates (expected   *)
(* move, slippage, ROI, merit) in basis points (1/10000).                  *)
(***************************************************************************)
EXTENDS Integers, Sequences, FiniteSets, TLC

VARIABLES
    \* ---- shared
    now,            \* datetime.utcnow(), minutes
    watchPairs,     \* watch_pairs table: pair -> row (NoRow = no row)
    \* ---- Postgres state used by the Alerts worker and the Profiler
    tiers,          \* Wallet.tier per wallet ("absent" = no Wallet row)
    metrics,        \* WalletMetric rows [wallet, total_value], in insertion order
    positions,      \* Position rows [wallet, token, quantity, average_price]
    tokenRisk,      \* tokens that have a TokenRisk row
    alerts,         \* committed Alert rows, in insertion order
    apc,            \* Alerts worker instance -> "idle" | "scan"
    atodo,          \* Alerts worker instance -> ids of the trades left to scan
    asession,       \* Alerts worker instance -> Alert rows added, not committed
    plast,          \* Profiler: runs committed so far (counted up to
                    \* MaxRuns) and the wallets the last run skipped as ignored
    \* ---- a Redis stream with one consumer group (utils/redis_helpers.py)
    stream,         \* entries of the stream, the entry id is the index
    lastDelivered,  \* last-delivered id of the consumer group
    pel,            \* pending entries list: ids delivered and not acknowledged
    dead,           \* entries of the dead-letter stream
    batch,          \* consumer process -> ids it has read and not yet handled
    failed,         \* ids whose handler has raised
    \* ---- the listener's dedupe key and raw_events (worker_listener_evm.py)
    rnow,           \* Redis server clock, seconds
    dedupeSet,      \* members of the dedupe set ({} = the key does not exist)
    dedupeTtl,      \* expiry time of the dedupe key, or NoTtl
    lpc,            \* listener -> "idle", or the publish_log call in progress
    rawEvents,      \* entries published to raw_events [log, seen_at]
    firstSeen,      \* log -> time a listener first received it, or NoTime
    \* ---- signal_outcomes (worker_outcome_evaluator.py)
    outcomes,       \* committed SignalOutcome rows, in insertion order
    epc,            \* evaluator instance -> "idle" | horizon index being read
    esession,       \* evaluator instance -> SignalOutcome rows not committed
    \* ---- worker_watchlist_autopilot.py
    wpc,            \* "idle" | "churn"
    wnow,           \* the now captured at the start of run_autopilot_once
    \* ---- worker_decoder.py
    draw,           \* the raw event handed to decode_raw_event
    drecord,        \* the record decode_raw_event returned, or NoRecord
    \* ---- the long-lived DB sessions of worker_risk.py and worker_decoder.py
    riskRows,       \* token_risk table: token -> row (NoRiskRow = no row)
    rsession,       \* risk worker's session: "clean" | "needs_rollback"
    rhandled,       \* log of the messages process_risk_batch has handled
    bsession,       \* decoder's session: "clean" | "needs_rollback"
    btrades,        \* tx hashes of the committed Trade rows
    bpublished,     \* tx hashes published to decoded_trades
    bhandled,       \* log of the messages process_batch has handled
    \* ---- the listener's subscription (worker_listener_evm.py)
    lwatchlist,     \* build_watchlist() for the chain, taken once at start
    lconn,          \* "connecting" | "subscribed"
    lfilter,        \* the addresses of the eth_subscribe in force
    \* ---- one PositionState folded over a sequence of trades (_apply_trade)
    fpos,           \* the PositionState [quantity, average_price]
    fprev,          \* the PositionState before the last trade
    ftrade,         \* the last trade applied, or NoTrade
    fcount,         \* trades applied so far
    \* ---- one wallet in one merit cycle (run_merit_update_once)
    mwallet,        \* the Wallet row before the cycle [merit_score, prior_weight]
    msample,        \* stats.sample_size of the cycle
    mruns,          \* [avg_contribution, merit_score] of the cycle, for each
                    \* avg_contribution tried
    \* ---- one run of run_merit_update_once over wallets alerting on one token
    kwallets,       \* wallets table: wallet -> [tier, merit_score, source]
    kleft,          \* the wallets the loop of the run has not reached yet
    kalerts,        \* wallet -> created_at of its alert on the token, seconds
    kreturn,        \* net_tradeable_return_est of each outcome, millionths
    \* ---- worker_decoder.handle_message: trades and decoded_trades
    htrades,        \* trades table: tx_hash -> decode_confidence of the row
    hpublished,     \* records published to decoded_trades, in order
    hlast,          \* how the last handle_message call ended
    hcount,         \* handle_message calls so far
    \* ---- utils/http_client.py: one HttpClient shared by the tasks that call it
    cfail,          \* _failure_count
    copen,          \* _circuit_open_until, monotonic seconds, or NoTime
    cnow,           \* time.monotonic(), seconds
    ctask,          \* task -> [pc, kind, attempt, outer] of its call
    clast,          \* what the last step of a call did, and the circuit it found
    \* ---- the loop of one worker process and its stop event (run_worker, listen_chain)
    sworker,        \* the worker this process runs
    swatch,         \* listener: TRUE when build_watchlist gave addresses
    sstop,          \* stop_event.is_set()
    spc,            \* where the loop is, "exited" after it has returned
    sbackoff,       \* listener: backoff, seconds
    sfails,         \* listener: failures since the last received message
    swait,          \* listener: the reconnect wait in progress or last made
    slate,          \* iterations begun after the stop event was set
    sstopAt,        \* where the loop was when the stop event was set
    \* ---- the heartbeat key of one worker process (utils/ops.py)
    bworker,        \* the worker this process runs
    bnow,           \* Redis server clock, seconds
    balive,         \* "new" | "running" | "stopped"
    bkey,           \* expiry time of titan:hb:{worker_name}, NoTime = no key
    bnext,          \* when heartbeat_loop writes next, NoTime = no such task
    bwritten,       \* when the key was last written, or NoTime
    bstopped,       \* when the worker stopped, or NoTime
    \* ---- the alerts the outcome evaluator has to work through (run_outcome_evaluator_once)
    qalerts,        \* alerts whose age has reached every horizon, oldest first
    qoutcomes,      \* <<alert, horizon>> of the committed SignalOutcome rows
    qlast,          \* the last evaluator run: the <<alert, horizon>> it evaluated and the tokens whose price lookup failed
    \* ---- one alert evaluated over one horizon (_evaluate_alert_horizon)
    halert,         \* the alert: its token_address and the entry_price of its reasons
    hsnapshots,     \* the risk snapshots of the token
    hprices,        \* the price series of the window, <<minute, price>>
    houtcome,       \* the SignalOutcome returned, or NoOutcome
    \* ---- one wallet through successive merit cycles over the same outcomes (run_merit_update_once)
    cwallet,        \* the Wallet row: tier, source, merit_score in 1e-8 and prior_weight
    cstats,         \* the statistics of the wallet's valid outcomes, the same in every cycle
    \* ---- the risk jobs published for decoded trades (enqueue_risk_job)
    jset,           \* the members of the Redis set risk_jobs' dedupe key that the model follows
    jttl,           \* seconds the dedupe key has left, NoTtl when the key does not exist
    jage,           \* per token: seconds since its last risk job, NoTime before the first
    \* ---- two Profiler instances running run_once side by side
    tpositions,     \* positions table: the committed rows, in insertion order
    tmetrics,       \* wallet_metrics table: the committed rows
    tpc,            \* per instance: 0 when idle, else the index in WalletOrder it is at
    tsession,       \* per instance: the rows its session added and has not committed
    truns           \* per instance: the runs it has committed

alertVars == <<tiers, metrics, positions, tokenRisk, alerts, apc, atodo, asession,
               plast>>
streamVars == <<stream, lastDelivered, pel, dead, batch, failed>>
dedupeVars == <<rnow, dedupeSet, dedupeTtl, lpc, rawEvents, firstSeen>>
evalVars == <<outcomes, epc, esession>>
autoVars == <<wpc, wnow>>
decodeVars == <<draw, drecord>>
sessionVars == <<riskRows, rsession, rhandled, bsession, btrades, bpublished,
                 bhandled>>
listenVars == <<lwatchlist, lconn, lfilter>>
foldVars == <<fpos, fprev, ftrade, fcount>>
meritVars == <<mwallet, msample, mruns>>
rankVars == <<kwallets, kleft, kalerts, kreturn>>
handleVars == <<htrades, hpublished, hlast, hcount>>
circuitVars == <<cfail, copen, cnow, ctask, clast>>
loopVars == <<sworker, swatch, sstop, spc, sbackoff, sfails, swait, slate, sstopAt>>
beatVars == <<bworker, bnow, balive, bkey, bnext, bwritten, bstopped>>
queueVars == <<qalerts, qoutcomes, qlast>>
horizonVars == <<halert, hsnapshots, hprices, houtcome>>
cycleVars == <<cwallet, cstats>>
jobVars == <<jset, jttl, jage>>
twinVars == <<tpositions, tmetrics, tpc, tsession, truns>>
moreVars == <<rankVars, handleVars, circuitVars, loopVars, beatVars, queueVars, horizonVars, cycleVars, jobVars, twinVars>>
restVars == <<sessionVars, listenVars, foldVars, meritVars, moreVars>>

vars == <<now, watchPairs, alertVars, streamVars, dedupeVars, evalVars,
          autoVars, decodeVars, restVars>>

\* What the actions of one group of workers leave alone.
notAlertVars == <<streamVars, dedupeVars, evalVars, autoVars, decodeVars,
                  restVars>>
notStreamVars == <<now, watchPairs, alertVars, dedupeVars, evalVars, autoVars,
                   decodeVars, restVars>>
notDedupeVars == <<now, watchPairs, alertVars, streamVars, evalVars, autoVars,
                   decodeVars, restVars>>
notEvalVars == <<watchPairs, alertVars, streamVars, dedupeVars, autoVars,
                 decodeVars, restVars>>
notAutoVars == <<alertVars, streamVars, dedupeVars, evalVars, decodeVars,
                 restVars>>
notDecodeVars == <<now, watchPairs, alertVars, streamVars, dedupeVars, evalVars,
                   autoVars, restVars>>
firstVars == <<alertVars, streamVars, dedupeVars, evalVars, autoVars,
               decodeVars>>
notSessionVars == <<watchPairs, firstVars, listenVars, foldVars, meritVars,
    moreVars>>
notListenVars == <<now, watchPairs, firstVars, sessionVars, foldVars, meritVars,
    moreVars>>
notFoldVars == <<now, watchPairs, firstVars, sessionVars, listenVars, meritVars,
    moreVars>>
notMeritVars == <<now, watchPairs, firstVars, sessionVars, listenVars, foldVars,
    moreVars>>

oldVars == <<now, watchPairs, firstVars, sessionVars, listenVars, foldVars,
            meritVars>>
notRankVars == <<oldVars,
    handleVars,
    circuitVars,
    loopVars,
    beatVars,
    queueVars,
    horizonVars,
    cycleVars,
    jobVars,
    twinVars>>
notHandleVars == <<now, watchPairs, alertVars, streamVars, dedupeVars, evalVars, autoVars,
    sessionVars, listenVars, foldVars, meritVars,
    rankVars,
    circuitVars,
    loopVars,
    beatVars,
    queueVars,
    horizonVars,
    cycleVars,
    jobVars,
    twinVars>>
notCircuitVars == <<oldVars,
    rankVars,
    handleVars,
    loopVars,
    beatVars,
    queueVars,
    horizonVars,
    cycleVars,
    jobVars,
    twinVars>>
notLoopVars == <<oldVars,
    rankVars,
    handleVars,
    circuitVars,
    beatVars,
    queueVars,
    horizonVars,
    cycleVars,
    jobVars,
    twinVars>>
notBeatVars == <<oldVars,
    rankVars,
    handleVars,
    circuitVars,
    loopVars,
    queueVars,
    horizonVars,
    cycleVars,
    jobVars,
    twinVars>>
notQueueVars == <<oldVars,
    rankVars,
    handleVars,
    circuitVars,
    loopVars,
    beatVars,
    horizonVars,
    cycleVars,
    jobVars,
    twinVars>>
notHorizonVars == <<oldVars,
    rankVars,
    handleVars,
    circuitVars,
    loopVars,
    beatVars,
    queueVars,
    cycleVars,
    jobVars,
    twinVars>>
notCycleVars == <<oldVars,
    rankVars,
    handleVars,
    circuitVars,
    loopVars,
    beatVars,
    queueVars,
    horizonVars,
    jobVars,
    twinVars>>
notJobVars == <<oldVars,
    rankVars,
    handleVars,
    circuitVars,
    loopVars,
    beatVars,
    queueVars,
    horizonVars,
    cycleVars,
    twinVars>>
notTwinVars == <<oldVars,
    rankVars,
    handleVars,
    circuitVars,
    loopVars,
    beatVars,
    queueVars,
    horizonVars,
    cycleVars,
    jobVars>>

(***************************************************************************)
(* Bounds of the model.                                                    *)
(***************************************************************************)
TickMinutes == 40
MaxClock == 80
MaxAlerts == 4
MaxRuns == 2
WatchPairExpiry == 60

(***************************************************************************)
(* Program constants.                                                      *)
(***************************************************************************)
COOLDOWN_MINUTES == 60
LOOKBACK_HOURS == 24
TierAlertWindowMinutes == 60
tier_ocean_threshold == 1000000
tier_shadow_threshold == 100000
tier_titan_threshold == 10000
netev_expected_move_eth == 800
netev_expected_move_bsc == 500
netev_min_usd_profit_eth == 20
netev_min_usd_profit_bsc == 6
netev_min_roi_eth == 800
netev_min_roi_bsc == 500
netev_gas_cost_usd_eth == 14
netev_default_slippage == 200
DerivedMoveMax == 2000
merit_ocean_to_shadow_positive_min == 3
merit_shadow_to_titan_sample_min == 20
merit_shadow_to_titan_threshold == 800
merit_integrity_min == 8000
merit_seed_decay_min_outcomes == 12
merit_seed_decay_threshold == -200

ALERT_TYPE == "trade_conviction"
POOL_ALERT_TYPE == "pool_activity"
TIER_ALERT_TYPE == "wallet_tier"

NoTime == -1
\* None where the code holds a float or None.
NoFloat == -1000
NoMetric == -1
NoAverage == -1
NoMove == -1

Min(a, b) == IF a < b THEN a ELSE b
Max(a, b) == IF a > b THEN a ELSE b

(***************************************************************************)
(* The data the Alerts worker and the Profiler run over.                   *)
(***************************************************************************)
Wallets == {"w1", "w2"}
WalletOrder == <<"w1", "w2">>
Tokens == {"tokA"}
Instances == {1, 2}

\* Wallet.source per wallet.
WalletSource == [w \in Wallets |-> IF w = "w1" THEN "seed_pack" ELSE "autopilot"]

\* The trades table (price is null in every row).  usd = 0 stands for a missing
\* usd_value (None and 0 are both falsy where the code reads it).
Trades == <<
    [chain |-> "ethereum", wallet |-> "w1", token |-> "tokA", pair |-> "p1",
     side |-> "buy", usd |-> 5000, amount |-> 1, created_at |-> -2],
    [chain |-> "ethereum", wallet |-> "w1", token |-> "tokA", pair |-> "p1",
     side |-> "buy", usd |-> 5000, amount |-> 1, created_at |-> -1],
    [chain |-> "ethereum", wallet |-> "w2", token |-> "tokA", pair |-> "p1",
     side |-> "buy", usd |-> 0, amount |-> 1, created_at |-> 0] >>

TradeIds == DOMAIN Trades

\* avg(net_tradeable_return_est) over the valid outcomes of a token, as the
\* outcomes table may hold it at the time of a gate (NoMove = no valid outcome).
OutcomeAverages == {NoMove, -500, 3000}

\* Gas cost in USD as estimate_trade_gas_cost may return it (receipt, rolling
\* p95 or the chain default).
GasQuotes == {5, netev_gas_cost_usd_eth, 80}

\* Outcome statistics of a wallet as a merit cycle may find them.
MeritStats == {
    [sample_size |-> 0, positive_count |-> 0, merit |-> 0],
    [sample_size |-> 20, positive_count |-> 3, merit |-> 1000],
    [sample_size |-> 12, positive_count |-> 0, merit |-> -300] }

(***************************************************************************)
(* worker_alerts.py                                                        *)
(***************************************************************************)
\* is_wallet_ignored: the Wallet row exists and its tier is "ignore".
IsWalletIgnored(w) == tiers[w] = "ignore"

\* What a session sees: the committed rows and its own rows, flushed before
\* each query (the session factory of app.db, with SQLAlchemy's autoflush).
SessionAlerts(i) == alerts \o asession[i]

\* select(WalletMetric) ... limit(1): total_value of the wallet's row.
WalletMetricOf(w) ==
    LET hits == {k \in DOMAIN metrics : metrics[k].wallet = w}
    IN IF hits = {} THEN NoMetric
       ELSE metrics[CHOOSE k \in hits : \A j \in hits : k <= j].total_value

\* _latest_alert: created_at of the newest trade_conviction alert of the key.
LatestAlert(vis, chain, wallet, token) ==
    LET hits == {k \in DOMAIN vis :
                    /\ vis[k].chain = chain
                    /\ vis[k].wallet = wallet
                    /\ vis[k].token = token
                    /\ vis[k].alert_type = ALERT_TYPE}
    IN IF hits = {} THEN NoTime
       ELSE LET k == CHOOSE k \in hits :
                        \A j \in hits : vis[j].created_at <= vis[k].created_at
            IN vis[k].created_at

\* The cooldown test without the timedelta of COOLDOWN_MINUTES.
InCooldownWithoutWindow(latest, t) ==
    latest # NoTime /\ t < latest

\* The cooldown test shared by run_once and _emit_pool_alert.
InCooldown(latest, t) ==
    latest # NoTime /\ t < latest + COOLDOWN_MINUTES

\* _watch_pair_active
WatchPairActive(pair, t) ==
    /\ pair \in DOMAIN watchPairs
    /\ watchPairs[pair].source # "absent"
    /\ watchPairs[pair].expires_at > t

ChainExpectedMove(chain) ==
    IF chain = "bsc" THEN netev_expected_move_bsc ELSE netev_expected_move_eth

ChainMinUsdProfit(chain) ==
    IF chain = "bsc" THEN netev_min_usd_profit_bsc ELSE netev_min_usd_profit_eth

ChainMinRoi(chain) ==
    IF chain = "bsc" THEN netev_min_roi_bsc ELSE netev_min_roi_eth

\* _derived_expected_move: the clamp of the outcome average to [0, 0.2].
DerivedExpectedMove(avg) ==
    IF avg = NoMove THEN NoMove ELSE Max(0, Min(DerivedMoveMax, avg))

\* netev_usd in 1/10000 USD.
NetevUsd(size_usd, expected_move, gas_cost_usd, slippage) ==
    size_usd * expected_move - gas_cost_usd * 10000 - size_usd * Max(0, slippage)

\* _netev_gate, the payload stored under reasons.netev (netev_usd in
\* 1/10000 USD); NoReasons for the alerts that carry none.
NoReasons == [passed |-> FALSE]

NetevPayload(trade, avg, gas_cost_usd) ==
    LET derived == DerivedExpectedMove(avg)
        expected_move == IF derived # NoMove THEN derived
                         ELSE ChainExpectedMove(trade.chain)
    IN [passed |-> TRUE,
        size_usd |-> trade.usd,
        expected_move |-> expected_move,
        gas_cost_usd |-> gas_cost_usd,
        slippage |-> netev_default_slippage,
        netev_usd |-> NetevUsd(trade.usd, expected_move, gas_cost_usd,
                               netev_default_slippage),
        min_usd_profit |-> ChainMinUsdProfit(trade.chain),
        min_roi_after_costs |-> ChainMinRoi(trade.chain)]

\* _netev_gate with the comparison against the chain's minimum ROI left out.
NetevGateUsdOnly(trade, avg, gas_cost_usd) ==
    LET p == NetevPayload(trade, avg, gas_cost_usd)
    IN IF trade.usd <= 0 THEN FALSE
       ELSE p.netev_usd >= ChainMinUsdProfit(trade.chain) * 10000

\* _netev_gate
NetevGate(trade, avg, gas_cost_usd) ==
    LET size_usd == trade.usd
        derived == DerivedExpectedMove(avg)
        expected_move == IF derived # NoMove THEN derived
                         ELSE ChainExpectedMove(trade.chain)
        netev == NetevUsd(size_usd, expected_move, gas_cost_usd,
                          netev_default_slippage)
    IN IF size_usd <= 0 THEN FALSE
       ELSE /\ netev >= ChainMinUsdProfit(trade.chain) * 10000
            /\ netev >= ChainMinRoi(trade.chain) * size_usd

\* _tier_for_value
TierForValue(total_value) ==
    IF total_value >= tier_ocean_threshold THEN "ocean"
    ELSE IF total_value >= tier_shadow_threshold THEN "shadow"
    ELSE IF total_value >= tier_titan_threshold THEN "titan"
    ELSE "ignore"

\* trade is the row of trades named by reasons.trade (tx_hash and
\* log_index), 0 for the alerts that name none.
NewAlert(type, wallet, token, chain, tier) ==
    [alert_type |-> type, chain |-> chain, wallet |-> wallet, token |-> token,
     created_at |-> now, tier |-> tier,
     wallet_tier_then |-> tiers[wallet], reasons |-> NoReasons, trade |-> 0]

\* _emit_pool_alert: TRUE when the pool alert is added.
EmitPoolAlert(vis, trade) ==
    ~InCooldown(LatestAlert(vis, trade.chain, trade.wallet, trade.token), now)

\* The body of run_once's loop for one trade: the type of the alert it adds,
\* or "none".
AlertDecision(vis, trade, avg, gas_cost_usd) ==
    IF trade.token \notin tokenRisk THEN "none"
    ELSE LET watch_pair_active == WatchPairActive(trade.pair, now)
             latest == LatestAlert(vis, trade.chain, trade.wallet, trade.token)
         IN IF watch_pair_active /\ trade.usd = 0 /\ EmitPoolAlert(vis, trade)
            THEN POOL_ALERT_TYPE
            ELSE IF WalletMetricOf(trade.wallet) = NoMetric \/ IsWalletIgnored(trade.wallet)
            THEN IF watch_pair_active /\ EmitPoolAlert(vis, trade)
                 THEN POOL_ALERT_TYPE ELSE "none"
            ELSE IF InCooldown(latest, now) THEN "none"
            ELSE IF ~NetevGate(trade, avg, gas_cost_usd) THEN "none"
            ELSE ALERT_TYPE

\* run_once, the select of the buys of the last 24 hours.
AlertsBegin(i) ==
    /\ apc[i] = "idle"
    /\ Len(alerts) < MaxAlerts
    /\ apc' = [apc EXCEPT ![i] = "scan"]
    /\ atodo' = [atodo EXCEPT ![i] =
                    {t \in TradeIds :
                        /\ Trades[t].side = "buy"
                        /\ Trades[t].created_at >= now - LOOKBACK_HOURS * 60}]
    /\ asession' = [asession EXCEPT ![i] = <<>>]
    /\ UNCHANGED <<now, watchPairs, tiers, metrics, positions, tokenRisk, alerts,
                   plast>>
    /\ UNCHANGED notAlertVars

\* run_once, one iteration of the loop (order_by created_at desc).
AlertsProcessTrade(i) ==
    /\ apc[i] = "scan"
    /\ \E t \in atodo[i], avg \in OutcomeAverages, gas \in GasQuotes :
          /\ \A u \in atodo[i] : Trades[u].created_at <= Trades[t].created_at
          /\ LET trade == Trades[t]
                 kind == AlertDecision(SessionAlerts(i), trade, avg, gas)
                 tier == IF kind = ALERT_TYPE
                         THEN TierForValue(WalletMetricOf(trade.wallet)) ELSE "n/a"
             IN asession' = [asession EXCEPT ![i] =
                    IF kind = "none" THEN @
                    ELSE Append(@,
                        [NewAlert(kind, trade.wallet, trade.token,
                                  trade.chain, tier)
                         EXCEPT !.reasons =
                             IF kind = ALERT_TYPE
                             THEN NetevPayload(trade, avg, gas)
                             ELSE @,
                                !.trade = IF kind = ALERT_TYPE THEN t ELSE @])]
          /\ atodo' = [atodo EXCEPT ![i] = @ \ {t}]
    /\ UNCHANGED <<now, watchPairs, tiers, metrics, positions, tokenRisk,
                   alerts, apc, plast>>
    /\ UNCHANGED notAlertVars

\* run_once, session.commit() after the loop.
AlertsCommit(i) ==
    /\ apc[i] = "scan"
    /\ atodo[i] = {}
    /\ alerts' = alerts \o asession[i]
    /\ asession' = [asession EXCEPT ![i] = <<>>]
    /\ apc' = [apc EXCEPT ![i] = "idle"]
    /\ UNCHANGED <<now, watchPairs, tiers, metrics, positions, tokenRisk, atodo,
                   plast>>
    /\ UNCHANGED notAlertVars

\* The clock between two awaits.
Tick ==
    /\ now + TickMinutes <= MaxClock
    /\ now' = now + TickMinutes
    /\ UNCHANGED <<watchPairs, alertVars, notAlertVars>>

(***************************************************************************)
(* worker_profiler.py and services/merit.py                                *)
(***************************************************************************)
\* _effective_price: price is null, so usd_value / amount when both are set.
EffectivePrice(trade) ==
    IF trade.amount # 0 /\ trade.usd # 0 THEN trade.usd \div trade.amount
    ELSE NoAverage

\* _apply_trade with a sell that takes the whole amount off the quantity.
ApplyTradeUnbounded(pos, trade) ==
    IF trade.side = "buy"
    THEN LET price == EffectivePrice(trade)
             held == IF pos.average_price = NoAverage THEN 0 ELSE pos.average_price
             quantity == pos.quantity + trade.amount
         IN IF price = NoAverage THEN pos
            ELSE [quantity |-> quantity,
                  average_price |->
                      IF quantity # 0
                      THEN (held * pos.quantity + trade.amount * price)
                               \div quantity
                      ELSE NoAverage]
    ELSE [quantity |-> pos.quantity - trade.amount,
          average_price |-> pos.average_price]

\* _apply_trade
ApplyTrade(pos, trade) ==
    IF trade.side = "buy"
    THEN LET price == EffectivePrice(trade)
             held == IF pos.average_price = NoAverage THEN 0 ELSE pos.average_price
             total_cost == held * pos.quantity + trade.amount * price
             quantity == pos.quantity + trade.amount
         IN IF price = NoAverage THEN pos
            ELSE [quantity |-> quantity,
                  average_price |-> IF quantity # 0 THEN total_cost \div quantity
                                    ELSE NoAverage]
    ELSE IF pos.quantity <= 0 THEN pos
    ELSE LET quantity == pos.quantity - Min(pos.quantity, trade.amount)
         IN IF quantity <= 0
            THEN [quantity |-> 0, average_price |-> NoAverage]
            ELSE [quantity |-> quantity, average_price |-> pos.average_price]

\* run_once's fold of the sorted trades of one (wallet, token).
RECURSIVE FoldTrades(_, _, _, _)
FoldTrades(pos, w, tk, k) ==
    IF k > Len(Trades) THEN pos
    ELSE FoldTrades(IF Trades[k].wallet = w /\ Trades[k].token = tk
                    THEN ApplyTrade(pos, Trades[k]) ELSE pos,
                    w, tk, k + 1)

PositionState(w, tk) ==
    FoldTrades([quantity |-> 0, average_price |-> NoAverage], w, tk, 1)

TokensOf(w) == {Trades[k].token : k \in {j \in TradeIds : Trades[j].wallet = w}}

RECURSIVE SumValue(_, _)
SumValue(w, tks) ==
    IF tks = {} THEN 0
    ELSE LET tk == CHOOSE x \in tks : TRUE
             pos == PositionState(w, tk)
         IN pos.quantity * (IF pos.average_price = NoAverage THEN 0
                            ELSE pos.average_price)
            + SumValue(w, tks \ {tk})

TotalValue(w) == SumValue(w, TokensOf(w))

\* _upsert_positions without the select of the existing row.
UpsertPositionAlwaysInsert(rows, w, tk) ==
    LET pos == PositionState(w, tk)
    IN Append(rows, [wallet |-> w, token |-> tk, quantity |-> pos.quantity,
                     average_price |-> pos.average_price])

\* _upsert_positions for one token of one wallet.
UpsertPosition(rows, w, tk) ==
    LET pos == PositionState(w, tk)
        row == [wallet |-> w, token |-> tk, quantity |-> pos.quantity,
                average_price |-> pos.average_price]
        hits == {k \in DOMAIN rows : rows[k].wallet = w /\ rows[k].token = tk}
    IN IF hits = {} THEN Append(rows, row)
       ELSE [rows EXCEPT ![CHOOSE k \in hits : \A j \in hits : k <= j] = row]

RECURSIVE UpsertPositions(_, _, _)
UpsertPositions(rows, w, tks) ==
    IF tks = {} THEN rows
    ELSE LET tk == CHOOSE x \in tks : TRUE
         IN UpsertPositions(UpsertPosition(rows, w, tk), w, tks \ {tk})

\* _upsert_wallet_metric
UpsertWalletMetric(rows, w, total_value) ==
    LET row == [wallet |-> w, total_value |-> total_value, pnl |-> 0]
        hits == {k \in DOMAIN rows : rows[k].wallet = w}
    IN IF hits = {} THEN Append(rows, row)
       ELSE [rows EXCEPT ![CHOOSE k \in hits : \A j \in hits : k <= j] = row]

\* _maybe_create_tier_alert: TRUE when a wallet_tier alert is added.
MaybeCreateTierAlert(vis, w, tier) ==
    LET cutoff == now - TierAlertWindowMinutes
        hits == {k \in DOMAIN vis :
                    /\ vis[k].wallet = w
                    /\ vis[k].alert_type = TIER_ALERT_TYPE
                    /\ vis[k].created_at >= cutoff}
        existing == CHOOSE k \in hits :
                        \A j \in hits : vis[j].created_at <= vis[k].created_at
    IN IF tier = "ignore" THEN FALSE
       ELSE IF hits # {} /\ vis[existing].tier = tier THEN FALSE
       ELSE TRUE

\* _next_tier (bot_suspect, copycat_dominant and integrity_score at the
\* defaults _flags_from_reason gives a wallet without those keys).
NextTier(current, source, stats) ==
    IF current = "ocean"
       /\ stats.positive_count >= merit_ocean_to_shadow_positive_min
    THEN "shadow"
    ELSE IF current = "shadow"
            /\ stats.sample_size >= merit_shadow_to_titan_sample_min
            /\ stats.merit >= merit_shadow_to_titan_threshold
            /\ 10000 >= merit_integrity_min
    THEN "titan"
    ELSE IF source = "seed_pack"
            /\ stats.sample_size >= merit_seed_decay_min_outcomes
            /\ stats.merit <= merit_seed_decay_threshold
    THEN "ocean"
    ELSE current

\* run_once's loop over the wallets that have trades, skipping ignored ones.
RECURSIVE ProfileWallets(_, _)
ProfileWallets(state, k) ==
    IF k > Len(WalletOrder) THEN state
    ELSE LET w == WalletOrder[k]
             total_value == TotalValue(w)
             tier == TierForValue(total_value)
         IN IF TokensOf(w) = {} \/ IsWalletIgnored(w)
            THEN ProfileWallets(state, k + 1)
            ELSE ProfileWallets(
                    [positions |-> UpsertPositions(state.positions, w, TokensOf(w)),
                     metrics |-> UpsertWalletMetric(state.metrics, w, total_value),
                     alerts |-> IF MaybeCreateTierAlert(state.alerts, w, tier)
                                THEN Append(state.alerts,
                                        NewAlert(TIER_ALERT_TYPE, w, "none",
                                                 "ethereum", tier))
                                ELSE state.alerts],
                    k + 1)

\* run_once of the Profiler: accounting, then run_merit_update_once over
\* every Wallet row, then one commit.
ProfilerRunOnce ==
    /\ Len(alerts) < MaxAlerts
    /\ LET done == ProfileWallets([positions |-> positions, metrics |-> metrics,
                                   alerts |-> alerts], 1)
       IN /\ positions' = done.positions
          /\ metrics' = done.metrics
          /\ alerts' = done.alerts
    /\ \E stats \in [Wallets -> MeritStats] :
          tiers' = [w \in Wallets |->
                      IF tiers[w] = "absent" THEN "absent"
                      ELSE NextTier(tiers[w], WalletSource[w], stats[w])]
    /\ plast' = [runs |-> Min(plast.runs + 1, MaxRuns),
                 skipped |-> {w \in Wallets :
                                 TokensOf(w) # {} /\ IsWalletIgnored(w)}]
    /\ UNCHANGED <<now, watchPairs, tokenRisk, apc, atodo, asession>>
    /\ UNCHANGED notAlertVars

\* The seed ignore lists an operator may import: every wallet of a list gets
\* tier ignore.  (The import also sets source to seed_pack; the lists here
\* name wallets that have that source already.)
IgnoreLists == {{w} : w \in {x \in Wallets : WalletSource[x] = "seed_pack"}}

\* services/seed_importer.import_ignore_list
ImportIgnoreList ==
    /\ \E list \in IgnoreLists :
          /\ \E w \in list : tiers[w] # "ignore"
          /\ tiers' = [w \in Wallets |-> IF w \in list THEN "ignore" ELSE tiers[w]]
    /\ UNCHANGED <<now, watchPairs, metrics, positions, tokenRisk, alerts, apc,
                   atodo, asession, plast>>
    /\ UNCHANGED notAlertVars

(***************************************************************************)
(* utils/redis_helpers.py: a Redis stream read through one consumer group, *)
(* as worker_decoder.process_batch and process_messages_with_retry use it. *)
(***************************************************************************)
MaxPublished == 2
max_retries == 3
ReadCount == 10

Consumers == {"c1", "c2"}
MessageKinds == {"good", "poison"}

\* The handler raises on every attempt for a poison message.
HandlerRaises(fields) == fields.kind = "poison"

\* publish_to_stream by a producer: a new message carries no retry_count.
Publish ==
    /\ Cardinality({k \in DOMAIN stream : stream[k].retry_count = 0}) < MaxPublished
    /\ \E kind \in MessageKinds :
          stream' = Append(stream,
                        [origin |-> Len(stream) + 1, kind |-> kind,
                         retry_count |-> 0])
    /\ UNCHANGED <<lastDelivered, pel, dead, batch, failed>>
    /\ UNCHANGED notStreamVars

\* consume_from_stream: XREADGROUP with the id ">" returns the entries never
\* delivered to the group, at most count of them, and puts them in the PEL.
NewEntries ==
    {k \in DOMAIN stream : k > lastDelivered /\ k <= lastDelivered + ReadCount}

RECURSIVE IdsInOrder(_)
IdsInOrder(ids) ==
    IF ids = {} THEN <<>>
    ELSE LET k == CHOOSE x \in ids : \A y \in ids : x <= y
         IN <<k>> \o IdsInOrder(ids \ {k})

ConsumeFromStream(c) ==
    /\ batch[c] = <<>>
    /\ batch' = [batch EXCEPT ![c] = IdsInOrder(NewEntries)]
    /\ pel' = pel \cup NewEntries
    /\ lastDelivered' = IF NewEntries = {} THEN lastDelivered
                        ELSE CHOOSE k \in NewEntries : \A j \in NewEntries : j <= k
    /\ UNCHANGED <<stream, dead, failed>>
    /\ UNCHANGED notStreamVars

\* retry_or_dead_letter with the retries counted from one instead of zero.
RetryOrDeadLetterOneShort(message_id) ==
    LET fields == stream[message_id]
        retry_count == fields.retry_count + 1
        updated_fields == [fields EXCEPT !.retry_count = retry_count]
    IN [stream |-> IF retry_count >= max_retries THEN stream
                   ELSE Append(stream, updated_fields),
        dead |-> IF retry_count >= max_retries THEN Append(dead, updated_fields)
                 ELSE dead,
        pel |-> pel \ {message_id}]

\* retry_or_dead_letter: the streams and the PEL after the call.
RetryOrDeadLetter(message_id) ==
    LET fields == stream[message_id]
        retry_count == fields.retry_count + 1
        updated_fields == [fields EXCEPT !.retry_count = retry_count]
    IN [stream |-> IF retry_count > max_retries THEN stream
                   ELSE Append(stream, updated_fields),
        dead |-> IF retry_count > max_retries THEN Append(dead, updated_fields)
                 ELSE dead,
        pel |-> pel \ {message_id}]

\* One iteration of the loop over the messages read: the handler, then the
\* acknowledgement or retry_or_dead_letter.
HandleMessage(c) ==
    /\ batch[c] # <<>>
    /\ LET message_id == Head(batch[c])
       IN IF HandlerRaises(stream[message_id])
          THEN LET after == RetryOrDeadLetter(message_id)
               IN /\ stream' = after.stream
                  /\ dead' = after.dead
                  /\ pel' = after.pel
                  /\ failed' = failed \cup {message_id}
          ELSE /\ pel' = pel \ {message_id}
               /\ UNCHANGED <<stream, dead, failed>>
    /\ batch' = [batch EXCEPT ![c] = Tail(@)]
    /\ UNCHANGED lastDelivered
    /\ UNCHANGED notStreamVars

\* The consumer process stops with messages read and not yet handled; the
\* next process_batch of the group starts from an empty batch.
ConsumerStops(c) ==
    /\ batch[c] # <<>>
    /\ batch' = [batch EXCEPT ![c] = <<>>]
    /\ UNCHANGED <<stream, lastDelivered, pel, dead, failed>>
    /\ UNCHANGED notStreamVars

StreamParked ==
    /\ stream = <<>>
    /\ lastDelivered = 0
    /\ pel = {}
    /\ dead = <<>>
    /\ batch = [c \in Consumers |-> <<>>]
    /\ failed = {}

(***************************************************************************)
(* worker_listener_evm.py: publish_log over the shared dedupe set.         *)
(***************************************************************************)
DEDUPLICATION_TTL_SECONDS == 3600
NoTtl == -1

\* The instants of the Redis clock the model looks at, in seconds: one hour
\* after the start, the second before it, and later ones.
RedisTimes == {0, 1800, 3599, 3600, 5400}

Listeners == {"l1", "l2"}

\* The log events a subscription may deliver; the last one lacks its
\* transactionHash.
LogEvents == {
    [transactionHash |-> "0xa", logIndex |-> 0],
    [transactionHash |-> "0xb", logIndex |-> 0],
    [transactionHash |-> "", logIndex |-> 0] }

\* dedupe_value of publish_log.
DedupeValue(chain, log_event) ==
    <<chain, log_event.transactionHash, log_event.logIndex>>

DedupeValues == {DedupeValue("ethereum", e) : e \in LogEvents}

ListenerIdle == [step |-> "idle", value |-> <<>>, seen_at |-> NoTime]

\* publish_log up to the SADD of dedupe_with_ttl.  A value already in the set
\* is a duplicate and the call returns; a new one goes on to EXPIRE.
ReceiveLog(l) ==
    /\ lpc[l].step = "idle"
    /\ \E log_event \in LogEvents :
          LET value == DedupeValue("ethereum", log_event)
          IN IF log_event.transactionHash = ""
             THEN UNCHANGED <<dedupeSet, lpc, firstSeen>>
             ELSE /\ firstSeen' = IF firstSeen[value] = NoTime
                                  THEN [firstSeen EXCEPT ![value] = rnow]
                                  ELSE firstSeen
                  /\ IF value \in dedupeSet
                     THEN UNCHANGED <<dedupeSet, lpc>>
                     ELSE /\ dedupeSet' = dedupeSet \cup {value}
                          /\ lpc' = [lpc EXCEPT ![l] =
                                [step |-> "expire", value |-> value,
                                 seen_at |-> rnow]]
    /\ UNCHANGED <<rnow, dedupeTtl, rawEvents>>
    /\ UNCHANGED notDedupeVars

\* dedupe_with_ttl, redis.expire(key, ttl_seconds): sets the expiry of the
\* whole set when the key exists, and does nothing when it does not.
ExpireKey(l) ==
    /\ lpc[l].step = "expire"
    /\ dedupeTtl' = IF dedupeSet # {} THEN rnow + DEDUPLICATION_TTL_SECONDS
                    ELSE dedupeTtl
    /\ lpc' = [lpc EXCEPT ![l].step = "publish"]
    /\ UNCHANGED <<rnow, dedupeSet, rawEvents, firstSeen>>
    /\ UNCHANGED notDedupeVars

\* publish_log, publish_to_stream(redis, STREAM_RAW_EVENTS, payload).
PublishLog(l) ==
    /\ lpc[l].step = "publish"
    /\ rawEvents' = Append(rawEvents,
                        [value |-> lpc[l].value, seen_at |-> lpc[l].seen_at])
    /\ lpc' = [lpc EXCEPT ![l] = ListenerIdle]
    /\ UNCHANGED <<rnow, dedupeSet, dedupeTtl, firstSeen>>
    /\ UNCHANGED notDedupeVars

\* publish_log left after the SADD and before the XADD has happened: the
\* EXPIRE or the XADD raises (listen_chain catches it and reconnects) or the
\* listener is stopped.  Nothing takes the value out of the set.
PublishFails(l) ==
    /\ lpc[l].step \in {"expire", "publish"}
    /\ lpc' = [lpc EXCEPT ![l] = ListenerIdle]
    /\ UNCHANGED <<rnow, dedupeSet, dedupeTtl, rawEvents, firstSeen>>
    /\ UNCHANGED notDedupeVars

\* The Redis clock; a key whose expiry time is reached no longer exists.
RedisTick ==
    /\ \E t \in RedisTimes : t > rnow
    /\ rnow' = CHOOSE t \in RedisTimes :
                  t > rnow /\ \A u \in RedisTimes : u > rnow => t <= u
    /\ IF dedupeTtl # NoTtl /\ rnow' >= dedupeTtl
       THEN dedupeSet' = {} /\ dedupeTtl' = NoTtl
       ELSE UNCHANGED <<dedupeSet, dedupeTtl>>
    /\ UNCHANGED <<lpc, rawEvents, firstSeen>>
    /\ UNCHANGED notDedupeVars

DedupeParked ==
    /\ rnow = 0
    /\ dedupeSet = {}
    /\ dedupeTtl = NoTtl
    /\ lpc = [l \in Listeners |-> ListenerIdle]
    /\ rawEvents = <<>>
    /\ firstSeen = [v \in DedupeValues |-> NoTime]

(***************************************************************************)
(* worker_outcome_evaluator.py: run_outcome_evaluator_once over the        *)
(* signal_outcomes table and its unique constraint.                        *)
(***************************************************************************)
HORIZONS_MINUTES == <<30, 360, 1440>>

Evaluators == {1, 2}

\* The alerts table the evaluator reads, in created_at order; the last row
\* has no token_address.  (limit(200) is above the number of rows.)
EvalAlerts == <<
    [id |-> "al1", created_at |-> -1500, token_address |-> "tokA"],
    [id |-> "al2", created_at |-> -340, token_address |-> "tokA"],
    [id |-> "al3", created_at |-> -100, token_address |-> ""] >>

EvaluatorIdle == [step |-> "idle", horizon |-> 1, now |-> NoTime]

\* signal_outcomes without its unique constraint.
NoUniqueConstraint(rows, new) == FALSE

\* uq_signal_outcomes_alert_horizon: TRUE when inserting the rows of new next
\* to rows breaks UniqueConstraint("alert_id", "horizon_minutes").
UniqueViolation(rows, new) ==
    \E k \in DOMAIN rows, j \in DOMAIN new :
        /\ rows[k].alert_id = new[j].alert_id
        /\ rows[k].horizon_minutes = new[j].horizon_minutes

\* The select of one horizon: alerts old enough that have no outcome of the
\* horizon among the rows the session sees.
EligibleAlerts(horizon_minutes, run_now, visible) ==
    {k \in DOMAIN EvalAlerts :
        /\ EvalAlerts[k].created_at <= run_now - horizon_minutes
        /\ ~\E j \in DOMAIN visible :
              /\ visible[j].alert_id = EvalAlerts[k].id
              /\ visible[j].horizon_minutes = horizon_minutes}

\* _evaluate_alert_horizon over the selected alerts, oldest first; an alert
\* without token_address gives no outcome.
RECURSIVE EvaluateAlerts(_, _)
EvaluateAlerts(ids, horizon_minutes) ==
    IF ids = {} THEN <<>>
    ELSE LET k == CHOOSE x \in ids : \A y \in ids : x <= y
             rest == EvaluateAlerts(ids \ {k}, horizon_minutes)
         IN IF EvalAlerts[k].token_address = "" THEN rest
            ELSE <<[alert_id |-> EvalAlerts[k].id,
                    horizon_minutes |-> horizon_minutes,
                    evaluated_at |-> now]>> \o rest

\* run_outcome_evaluator_once: now = datetime.utcnow() and a new session.
EvalBegin(e) ==
    /\ epc[e].step = "idle"
    /\ epc' = [epc EXCEPT ![e] = [step |-> "scan", horizon |-> 1, now |-> now]]
    /\ esession' = [esession EXCEPT ![e] = <<>>]
    /\ UNCHANGED <<now, outcomes>>
    /\ UNCHANGED notEvalVars

\* One iteration of the loop over HORIZONS_MINUTES.
EvalHorizon(e) ==
    /\ epc[e].step = "scan"
    /\ epc[e].horizon <= Len(HORIZONS_MINUTES)
    /\ LET horizon == HORIZONS_MINUTES[epc[e].horizon]
           found == EligibleAlerts(horizon, epc[e].now, outcomes \o esession[e])
       IN esession' = [esession EXCEPT ![e] = @ \o EvaluateAlerts(found, horizon)]
    /\ epc' = [epc EXCEPT ![e].horizon = @ + 1]
    /\ UNCHANGED <<now, outcomes>>
    /\ UNCHANGED notEvalVars

\* session.commit(): the inserts of the run are committed together, or the
\* unique constraint raises and the session is rolled back.
EvalCommit(e) ==
    /\ epc[e].step = "scan"
    /\ epc[e].horizon > Len(HORIZONS_MINUTES)
    /\ outcomes' = IF UniqueViolation(outcomes, esession[e]) THEN outcomes
                   ELSE outcomes \o esession[e]
    /\ esession' = [esession EXCEPT ![e] = <<>>]
    /\ epc' = [epc EXCEPT ![e] = EvaluatorIdle]
    /\ UNCHANGED now
    /\ UNCHANGED notEvalVars

EvalParked ==
    /\ outcomes = <<>>
    /\ epc = [e \in Evaluators |-> EvaluatorIdle]
    /\ esession = [e \in Evaluators |-> <<>>]

(***************************************************************************)
(* worker_watchlist_autopilot.py: run_autopilot_once over watch_pairs.     *)
(***************************************************************************)
autopilot_max_pairs_per_chain == 1
AutopilotExpiryMinutes == 360
SeedPriority == 100

Chains == {"ethereum", "bsc"}
Pairs == {"p1", "a1", "a2", "a3"}
PairChain(p) == "ethereum"

NoRow == [source |-> "absent", priority |-> 0, expires_at |-> NoTime,
          last_seen |-> NoTime]

\* watch_pairs after the seed import: p1 is a seed_pack pair.
InitialWatchPairs ==
    [p \in Pairs |->
        IF p = "p1"
        THEN [source |-> "seed_pack", priority |-> SeedPriority,
              expires_at |-> WatchPairExpiry, last_seen |-> NoTime]
        ELSE NoRow]

\* The pairs of a DexScreener answer that pass the filters, with the
\* _priority_score of each.
FetchedPriorities == {1, 2}
Fetches == UNION {[S -> FetchedPriorities] : S \in SUBSET Pairs}

\* The upsert of one fetched pair.
IngestPair(row, priority, t) ==
    [source |-> IF row.source = "seed_pack" THEN "seed_pack" ELSE "autopilot",
     priority |-> priority,
     expires_at |-> t + AutopilotExpiryMinutes,
     last_seen |-> t]

\* run_autopilot_once up to the first commit.  (A fetch that raises ends the
\* run with the table as it was.)
AutopilotIngest ==
    /\ wpc = "idle"
    /\ \E fetched \in Fetches :
          watchPairs' = [p \in Pairs |->
                            IF p \in DOMAIN fetched
                            THEN IngestPair(watchPairs[p], fetched[p], now)
                            ELSE watchPairs[p]]
    /\ wnow' = now
    /\ wpc' = "churn"
    /\ UNCHANGED now
    /\ UNCHANGED notAutoVars

\* The select of the churn step without its filter on source.
ChurnCandidatesOfAnySource(chain, t) ==
    {p \in Pairs :
        /\ PairChain(p) = chain
        /\ watchPairs[p].source # "absent"
        /\ watchPairs[p].expires_at > t}

\* The select of the churn step for one chain.
ChurnCandidates(chain, t) ==
    {p \in Pairs :
        /\ PairChain(p) = chain
        /\ watchPairs[p].source = "autopilot"
        /\ watchPairs[p].expires_at > t}

\* order_by(priority desc, last_seen desc): p may come before q.
SortsBefore(p, q) ==
    \/ watchPairs[p].priority > watchPairs[q].priority
    \/ /\ watchPairs[p].priority = watchPairs[q].priority
       /\ watchPairs[p].last_seen >= watchPairs[q].last_seen

\* active[autopilot_max_pairs_per_chain:], for every order the sort may give.
ExcessChoices(chain, t) ==
    LET active == ChurnCandidates(chain, t)
        n == Max(0, Cardinality(active) - autopilot_max_pairs_per_chain)
    IN {E \in SUBSET active :
          /\ Cardinality(E) = n
          /\ \A e \in E, k \in active \ E : SortsBefore(k, e)}

\* The churn loop over both chains.
AutopilotChurn ==
    /\ wpc = "churn"
    /\ \E excess \in [Chains -> SUBSET Pairs] :
          /\ \A chain \in Chains : excess[chain] \in ExcessChoices(chain, wnow)
          /\ watchPairs' = [p \in Pairs |->
                IF \E chain \in Chains : p \in excess[chain]
                THEN [watchPairs[p] EXCEPT !.expires_at = wnow,
                                           !.priority = Min(@, 0)]
                ELSE watchPairs[p]]
    /\ wpc' = "idle"
    /\ UNCHANGED <<now, wnow>>
    /\ UNCHANGED notAutoVars

AutoParked ==
    /\ wpc = "idle"
    /\ wnow = 0

(***************************************************************************)
(* worker_decoder.py: decode_raw_event.  decode_confidence is in           *)
(* hundredths; the float sums of the code compare with 0.6 and 1.0 as the  *)
(* hundredths do.                                                          *)
(***************************************************************************)
MIN_PUBLISH_CONFIDENCE == 60
SwapBaseConfidence == 50
BothTokensConfidence == 20
OneTokenConfidence == 10
PayloadConfidence == 20
SyncEventConfidence == 30
MaxConfidence == 100

\* The raw events handed to the decoder.  address: "" = missing or not an
\* EVM address, "unlisted" = an address outside the registry.  token0 and
\* token1 are what _get_pool_token returns ("" = None).  data names what the
\* payload decodes to: "short" = too short to decode, "out" = amounts of a
\* buy, "in" = amounts of a sell, amount0 not zero in both.
RawEvents ==
    [address : {"", "v2pair", "v3pool", "unlisted"},
     topic0 : {"", "v2_swap", "v3_swap", "v2_sync", "transfer"},
     token0 : {"", "tok0"},
     token1 : {"", "tok1"},
     data : {"short", "in", "out"},
     sender : {"", "0xw"}]

NoRecord == [decode_confidence |-> -1]

\* The amount a payload decodes to.
DecodedAmount == 2

\* lookup_dex: the strategy of the registry entry, "" when there is none.
LookupDex(address) ==
    IF address = "v2pair" THEN "v2_pair"
    ELSE IF address = "v3pool" THEN "v3_pool"
    ELSE ""

\* The Sync branch raising the confidence to the publish threshold.
SyncConfidenceAtThreshold(decode_confidence) ==
    Max(decode_confidence, MIN_PUBLISH_CONFIDENCE)

\* The Sync branch of decode_raw_event.
SyncConfidence(decode_confidence) == Max(decode_confidence, SyncEventConfidence)

\* A decoder that prices a decoded swap at one USD per unit.
DecodedSizePriced(amount) ==
    [price |-> IF amount = NoFloat THEN NoFloat ELSE 1,
     usd_value |-> amount]

\* decode_raw_event: price and usd_value are set to None at the start and
\* assigned nowhere else.
DecodedSize(amount) == [price |-> NoFloat, usd_value |-> NoFloat]

\* decode_raw_event
DecodeRawEvent(fields) ==
    LET address == fields.address
        topic0 == fields.topic0
        registry_entry == IF address # "" THEN LookupDex(address) ELSE ""
        swap == registry_entry # "" /\ topic0 \in {"v2_swap", "v3_swap"}
        token0 == fields.token0
        token1 == fields.token1
        decoded == fields.data # "short"
        tokens == IF token0 # "" /\ token1 # "" THEN BothTokensConfidence
                  ELSE IF token0 # "" \/ token1 # "" THEN OneTokenConfidence
                  ELSE 0
        swapped == SwapBaseConfidence + tokens
                   + (IF decoded THEN PayloadConfidence ELSE 0)
        confidence == IF swap THEN swapped ELSE 0
        synced == IF topic0 = "v2_sync" /\ registry_entry = "v2_pair"
                  THEN SyncConfidence(confidence) ELSE confidence
        first == IF token0 # "" THEN token0 ELSE token1
        amount == IF ~swap \/ ~decoded THEN NoFloat ELSE DecodedAmount
    IN [dex |-> IF swap THEN registry_entry ELSE "",
        pair_address |-> IF swap THEN address ELSE "",
        wallet_address |->
            IF swap /\ (topic0 = "v3_swap" \/ decoded) THEN fields.sender ELSE "",
        token_address |->
            IF ~swap \/ ~decoded THEN ""
            ELSE IF topic0 = "v2_swap" THEN first
            ELSE token0,
        side |-> IF ~swap \/ ~decoded THEN ""
                 ELSE IF fields.data = "out" THEN "buy" ELSE "sell",
        amount |-> amount,
        price |-> DecodedSize(amount).price,
        usd_value |-> DecodedSize(amount).usd_value,
        decode_confidence |-> Min(synced, MaxConfidence)]

\* A raw event is decoded.
DecodeEvent ==
    /\ drecord = NoRecord
    /\ drecord' = DecodeRawEvent(draw)
    /\ UNCHANGED draw
    /\ UNCHANGED notDecodeVars

\* The next raw event of the batch.
NextRawEvent ==
    /\ drecord # NoRecord
    /\ draw' \in RawEvents
    /\ drecord' = NoRecord
    /\ UNCHANGED notDecodeVars

DecodeParked ==
    /\ draw = CHOOSE f \in RawEvents : f.address = "" /\ f.topic0 = ""
                                        /\ f.token0 = "" /\ f.token1 = ""
                                        /\ f.data = "short" /\ f.sender = ""
    /\ drecord = NoRecord


(***************************************************************************)
(* worker_risk.py and worker_decoder.py: the batch loops and the one DB    *)
(* session each worker keeps for its whole life (run_worker).              *)
(*                                                                         *)
(* A session whose statement or flush has failed refuses every further     *)
(* statement until rollback() is called on it ("needs_rollback").          *)
(***************************************************************************)
MaxHandled == 3
NoLiquidity == -1
LowLiquidityUsd == 10000
TssBase == 100
TssNoPairPenalty == 30
TssFlagPenalty == 15
DataUnavailableScore == 0

NoRiskRow == [updated_at |-> NoTime]

\* What DexScreener and GoPlus answer for a token, after
\* _extract_dex_metrics and _extract_goplus_metrics.
RiskPayloads ==
    {[is_honeypot |-> FALSE, is_blacklisted |-> FALSE, is_proxy |-> FALSE,
      is_mintable |-> FALSE, pair_count |-> 2, max_liquidity_usd |-> 20000],
     [is_honeypot |-> TRUE, is_blacklisted |-> FALSE, is_proxy |-> FALSE,
      is_mintable |-> TRUE, pair_count |-> 2, max_liquidity_usd |-> 5000],
     [is_honeypot |-> TRUE, is_blacklisted |-> TRUE, is_proxy |-> TRUE,
      is_mintable |-> TRUE, pair_count |-> 0,
      max_liquidity_usd |-> NoLiquidity]}

\* The fields of a risk job: the token address may be missing.
RiskJobs == [token_address : {""} \cup Tokens]

\* _derive_flags
DeriveFlags(m) ==
    (IF m.is_honeypot THEN <<"honeypot">> ELSE <<>>)
    \o (IF m.is_blacklisted THEN <<"blacklisted">> ELSE <<>>)
    \o (IF m.is_proxy THEN <<"proxy">> ELSE <<>>)
    \o (IF m.is_mintable THEN <<"mintable">> ELSE <<>>)
    \o (IF m.max_liquidity_usd # NoLiquidity
           /\ m.max_liquidity_usd < LowLiquidityUsd
        THEN <<"low_liquidity">> ELSE <<>>)

\* _calculate_tss
CalculateTss(flags, m) ==
    Max(TssBase - (IF m.pair_count = 0 THEN TssNoPairPenalty ELSE 0)
                - TssFlagPenalty * Len(flags), 0)

\* handle_risk_job with an except branch that raises again.
RiskAssessmentReraising(fetch_ok, payload) ==
    IF fetch_ok
    THEN [raises |-> FALSE,
          score |-> CalculateTss(DeriveFlags(payload), payload),
          components |->
              [tss |-> [score |-> CalculateTss(DeriveFlags(payload), payload)],
               flags |-> DeriveFlags(payload)]]
    ELSE [raises |-> TRUE,
          score |-> DataUnavailableScore,
          components |-> [tss |-> [score |-> DataUnavailableScore],
                          flags |-> <<"data_unavailable">>]]

\* handle_risk_job, the try/except around the fetches: the score and the
\* components handed to _store_token_risk.
RiskAssessment(fetch_ok, payload) ==
    IF fetch_ok
    THEN [raises |-> FALSE,
          score |-> CalculateTss(DeriveFlags(payload), payload),
          components |->
              [tss |-> [score |-> CalculateTss(DeriveFlags(payload), payload)],
               flags |-> DeriveFlags(payload)]]
    ELSE [raises |-> FALSE,
          score |-> DataUnavailableScore,
          components |-> [tss |-> [score |-> DataUnavailableScore],
                          flags |-> <<"data_unavailable">>]]

\* _store_token_risk: the record merged over the row of (chain, address).
TokenRiskRecord(score, components, t) ==
    [score |-> score,
     tss |-> components.tss.score,
     flags |-> components.flags,
     components |-> components,
     updated_at |-> t]

\* A statement on the session succeeds when the session is usable and the
\* database accepts it.
StatementSucceeds(session, db_ok) == session = "clean" /\ db_ok

\* worker_outcome_evaluator._extract_risk_snapshots
ExtractRiskSnapshots(row) ==
    LET history == IF "history" \in DOMAIN row.components
                   THEN row.components.history
                   ELSE <<>>
    IN IF history # <<>>
       THEN history
       ELSE <<[updated_at |-> row.updated_at, flags |-> row.flags]>>

\* One iteration of the loop of process_risk_batch, handle_risk_job and
\* _store_token_risk included.
ProcessRiskMessage ==
    /\ Len(rhandled) + Len(bhandled) < MaxHandled
    /\ \E job \in RiskJobs, fetch_ok \in BOOLEAN, payload \in RiskPayloads,
          db_ok \in BOOLEAN :
         LET token == job.token_address
             a == RiskAssessment(fetch_ok, payload)
             record == TokenRiskRecord(a.score, a.components, now)
             stored == ~a.raises /\ StatementSucceeds(rsession, db_ok)
             after == IF a.raises THEN rsession ELSE "needs_rollback"
         IN IF token = ""
            THEN \* acknowledged without touching the session
                 /\ rhandled' = Append(rhandled,
                        [token |-> token, fetch_ok |-> TRUE, at |-> now,
                         session_before |-> rsession,
                         db_ok |-> TRUE, outcome |-> "acked",
                         stored |-> NoRiskRow,
                         session_at_retry |-> "none"])
                 /\ UNCHANGED <<riskRows, rsession>>
            ELSE IF stored
            THEN /\ riskRows' = [riskRows EXCEPT ![token] = record]
                 /\ rsession' = "clean"
                 /\ rhandled' = Append(rhandled,
                        [token |-> token, fetch_ok |-> fetch_ok, at |-> now,
                         session_before |-> rsession,
                         db_ok |-> TRUE, outcome |-> "acked",
                         stored |-> record,
                         session_at_retry |-> "none"])
            ELSE \* the except branch: retry_or_dead_letter, no rollback
                 /\ rsession' = after
                 /\ rhandled' = Append(rhandled,
                        [token |-> token, fetch_ok |-> fetch_ok, at |-> now,
                         session_before |-> rsession,
                         db_ok |-> db_ok, outcome |-> "retried",
                         stored |-> NoRiskRow,
                         session_at_retry |-> after])
                 /\ UNCHANGED riskRows
    /\ UNCHANGED <<bsession, btrades, bpublished, bhandled>>
    /\ UNCHANGED <<now, notSessionVars>>

\* The raw events the decoder is handed, as decode_raw_event sees them: the
\* transaction hash may be missing, the wallet may be missing, tracked or on
\* the ignore list.
RawMessages ==
    [tx_hash : {"", "0xa", "0xb"},
     wallet : {"none", "tracked", "ignored"},
     decode_confidence : {SwapBaseConfidence, MaxConfidence}]

\* One iteration of the loop of process_batch, handle_message included.
ProcessDecoderMessage ==
    /\ Len(rhandled) + Len(bhandled) < MaxHandled
    /\ \E m \in RawMessages, db_ok \in BOOLEAN :
         LET usable == StatementSucceeds(bsession, db_ok)
             entry(outcome, after) ==
                 [tx_hash |-> m.tx_hash, wallet |-> m.wallet,
                  session_before |-> bsession, db_ok |-> db_ok,
                  outcome |-> outcome,
                  session_at_retry |-> IF outcome = "retried" THEN after
                                       ELSE "none"]
         IN IF m.tx_hash = ""
            THEN \* ValueError before the session is used
                 /\ bhandled' = Append(bhandled, entry("retried", bsession))
                 /\ UNCHANGED <<bsession, btrades, bpublished>>
            ELSE IF ~usable
            THEN \* is_wallet_ignored, merge or commit fails
                 /\ bsession' = "needs_rollback"
                 /\ bhandled' = Append(bhandled,
                                       entry("retried", "needs_rollback"))
                 /\ UNCHANGED <<btrades, bpublished>>
            ELSE IF m.wallet = "ignored"
            THEN /\ bhandled' = Append(bhandled, entry("acked", bsession))
                 /\ UNCHANGED <<bsession, btrades, bpublished>>
            ELSE /\ btrades' = btrades \cup {m.tx_hash}
                 /\ bpublished' =
                        IF m.decode_confidence >= MIN_PUBLISH_CONFIDENCE
                        THEN bpublished \cup {m.tx_hash}
                        ELSE bpublished
                 /\ bhandled' = Append(bhandled, entry("acked", bsession))
                 /\ UNCHANGED bsession
    /\ UNCHANGED <<riskRows, rsession, rhandled>>
    /\ UNCHANGED <<now, notSessionVars>>

SessionParked ==
    /\ riskRows = [t \in Tokens |-> NoRiskRow]
    /\ rsession = "clean"
    /\ rhandled = <<>>
    /\ bsession = "clean"
    /\ btrades = {}
    /\ bpublished = {}
    /\ bhandled = <<>>

(***************************************************************************)
(* worker_listener_evm.py: run_worker and the connection loop of           *)
(* listen_chain for one chain.                                             *)
(***************************************************************************)
\* settings.watched_addresses_eth, as the operator may have set it.
ConfiguredAddresses == {"0xcfg"}

\* listen_chain: connect and send eth_subscribe over the addresses it was
\* started with.  (With no addresses it only sleeps and looks again.)
ListenerSubscribe ==
    /\ lconn = "connecting"
    /\ lwatchlist # {}
    /\ lconn' = "subscribed"
    /\ lfilter' = lwatchlist
    /\ UNCHANGED lwatchlist
    /\ UNCHANGED notListenVars

\* listen_chain: the socket fails; back off and connect again.
ListenerDisconnect ==
    /\ lconn = "subscribed"
    /\ lconn' = "connecting"
    /\ lfilter' = {}
    /\ UNCHANGED lwatchlist
    /\ UNCHANGED notListenVars

ListenParked ==
    /\ lwatchlist = {}
    /\ lconn = "connecting"
    /\ lfilter = {}

(***************************************************************************)
(* worker_profiler._apply_trade over any sequence of trades.               *)
(***************************************************************************)
MaxFold == 4

NoTrade == [side |-> "none", amount |-> 0, usd |-> 0]

\* Buys and sells with non-negative amounts; usd 0 stands for a usd_value
\* that is null.  (The decoder leaves price null.)
FoldInputs == [side : {"buy", "sell"}, amount : {0, 1, 2, 3}, usd : {0, 12, 30}]

\* run_once: the next trade of the (wallet, token) is folded in.
ApplyNextTrade ==
    /\ fcount < MaxFold
    /\ \E trade \in FoldInputs :
          /\ fprev' = fpos
          /\ fpos' = ApplyTrade(fpos, trade)
          /\ ftrade' = trade
    /\ fcount' = fcount + 1
    /\ UNCHANGED notFoldVars

FoldParked ==
    /\ fpos = [quantity |-> 0, average_price |-> NoAverage]
    /\ fprev = [quantity |-> 0, average_price |-> NoAverage]
    /\ ftrade = NoTrade
    /\ fcount = 0

(***************************************************************************)
(* services/merit.py: the merit score of one wallet after one cycle.       *)
(* merit_score, avg_contribution and the clamp are in millionths; the      *)
(* stored score is in 1/100000000, as _to_decimal rounds it.               *)
(***************************************************************************)
merit_decay == 85
merit_prior_constant == 15000
merit_return_clamp_min == -500000
merit_return_clamp_max == 500000

MeritWallets == [merit_score : {-20000, 0, 80000}, prior_weight : {-1, 0, 2}]
SampleSizes == {0, 1, 12}
Contributions == {-700000, -500000, -100001, -100000, 0, 333333, 500000,
                  900000}

\* A clamp that drops a value outside the range instead of holding it at the
\* bound.
ClampReturnDropping(value) ==
    IF value < merit_return_clamp_min \/ value > merit_return_clamp_max
    THEN 0 ELSE value

\* _clamp_return
ClampReturn(value) ==
    Max(merit_return_clamp_min, Min(merit_return_clamp_max, value))

\* _baseline_prior
BaselinePrior(wallet) == Max(0, wallet.prior_weight) * merit_prior_constant

\* _to_decimal: round(value, 8), halves to the even digit; x is in
\* 1/10000000000.
ToDecimal(x) ==
    LET q == x \div 100
        r == x % 100
    IN IF r > 50 \/ (r = 50 /\ q % 2 = 1) THEN q + 1 ELSE q

\* run_merit_update_once: the merit_score written for the wallet.
NewMeritScore(wallet, sample_size, avg_contribution) ==
    LET merit == wallet.merit_score * merit_decay
                 + BaselinePrior(wallet) * (100 - merit_decay)
    IN IF sample_size > 0
       THEN ToDecimal(merit * merit_decay
                      + ClampReturn(avg_contribution)
                        * (100 - merit_decay) * 100)
       ELSE ToDecimal(merit * 100)

\* One cycle over the wallet, finding some avg_contribution.
MeritCycle ==
    /\ \E avg \in Contributions :
          /\ \A r \in mruns : r.avg_contribution # avg
          /\ mruns' = mruns \cup
                {[avg_contribution |-> avg,
                  merit_score |-> NewMeritScore(mwallet, msample, avg)]}
    /\ UNCHANGED <<mwallet, msample>>
    /\ UNCHANGED notMeritVars

MeritParked ==
    /\ mwallet = [merit_score |-> 0, prior_weight |-> 0]
    /\ msample = 0
    /\ mruns = {}

(***************************************************************************)
(* services/merit.py: one run of run_merit_update_once over three wallets  *)
(* that each have one alert on the same token and one valid outcome.       *)
(* Times are in seconds; factors and penalties in percent; net returns in  *)
(* millionths (multiples of 0.01); merit_score in 1/100000000.             *)
(***************************************************************************)
RankWallets == {"A", "B", "C"}
CrowdWindowSeconds == 600
BurstWindowSeconds == 5

\* Alert times of A, B and C: A first, then B, then C.
AlertGaps == {3, 120, 660}
StartingMerits == {0, 8000000, 10000000}
NetReturns == {10000, 200000}

\* What the queries of the run see of the Wallet rows the loop has already
\* changed: the session flushes them before each query (the session factory
\* of app.db, with SQLAlchemy's autoflush).
SessionWallets == kwallets

\* _high_merit_filter
HighMeritFilter(w) ==
    \/ SessionWallets[w].tier \in {"shadow", "titan"}
    \/ SessionWallets[w].merit_score >= merit_shadow_to_titan_threshold * 10000

\* _early_factor
EarlyFactor(rank) == IF rank <= 1 THEN 100 ELSE IF rank = 2 THEN 70 ELSE 50

\* _clamp01, on percent
Clamp01(value) == Max(0, Min(100, value))

\* _crowding_penalty
CrowdingPenalty(high_merit_count) ==
    IF high_merit_count <= 1 THEN 0
    ELSE Clamp01((high_merit_count - 1) * 15)

\* _build_contributions, first_seen_rows: the rank of the wallet among the
\* high-merit wallets with an alert on the token, by first alert time.
FirstSeenRank(w) ==
    LET rows == {x \in RankWallets : HighMeritFilter(x)}
    IN IF w \in rows
       THEN Cardinality({x \in rows : kalerts[x] <= kalerts[w]})
       ELSE Cardinality(rows) + 1

\* _build_contributions, crowd_count
CrowdCount(w) ==
    Cardinality({x \in RankWallets :
        /\ HighMeritFilter(x)
        /\ kalerts[x] >= kalerts[w] - CrowdWindowSeconds
        /\ kalerts[x] <= kalerts[w] + CrowdWindowSeconds})

\* _build_contributions, same_block_density (tier_reason carries no
\* copycat_burst_score)
SameBlockDensity(w) ==
    Cardinality({x \in RankWallets :
        /\ kalerts[x] >= kalerts[w] - BurstWindowSeconds
        /\ kalerts[x] <= kalerts[w] + BurstWindowSeconds})

\* _build_contributions: the contribution of the wallet's one outcome.
BuildContribution(w) ==
    LET early_factor == EarlyFactor(FirstSeenRank(w))
        crowding_penalty == CrowdingPenalty(CrowdCount(w))
        copycat_penalty == Clamp01(Max(SameBlockDensity(w) - 1, 0) * 12)
    IN (kreturn \div 10000)
       * ((early_factor * (100 - crowding_penalty) * (100 - copycat_penalty))
          \div 100)

\* run_merit_update_once, one iteration of the loop over select(Wallet),
\* which returns the wallets in no particular order.
MeritUpdateWallet ==
    /\ \E w \in kleft :
         LET wallet == kwallets[w]
             contribution == BuildContribution(w)
             merit == NewMeritScore(
                          [merit_score |-> wallet.merit_score \div 100,
                           prior_weight |-> 0], 1, contribution)
             stats == [sample_size |-> 1,
                       positive_count |-> IF kreturn > 0 THEN 1 ELSE 0,
                       merit |-> merit \div 10000]
         IN /\ kwallets' = [kwallets EXCEPT ![w] =
                   [tier |-> NextTier(wallet.tier, wallet.source, stats),
                    merit_score |-> merit,
                    source |-> wallet.source]]
            /\ kleft' = kleft \ {w}
    /\ UNCHANGED <<kalerts, kreturn>>
    /\ UNCHANGED notRankVars

RankParked ==
    /\ kwallets = [w \in RankWallets |->
                      [tier |-> "shadow", merit_score |-> 0,
                       source |-> "autopilot"]]
    /\ kleft = {}
    /\ kalerts = [w \in RankWallets |-> 0]
    /\ kreturn = 0

(***************************************************************************)
(* worker_decoder.py: handle_message, from decode_raw_event to the publish *)
(* to decoded_trades.  A row of trades is keyed by (chain, tx_hash,        *)
(* log_index); session.merge overwrites the row of a key.                  *)
(***************************************************************************)
MaxDecoded == 2
NoConfidence == -1
TxHashes == {"0xa", "0xb"}
NotHandled == [outcome |-> "none", tx_hash |-> "", decode_confidence |-> NoConfidence]

\* A publish test that lets every record through.
ShouldPublishAlways(record) == record.decode_confidence >= 0

\* handle_message: the test before publish_to_stream.
ShouldPublish(record) == record.decode_confidence >= MIN_PUBLISH_CONFIDENCE

\* ck_trades_pair_address_when_decoded
TradeCheckConstraint(record) ==
    record.decode_confidence < MIN_PUBLISH_CONFIDENCE \/ record.pair_address # ""

\* handle_message for the raw event at hand.  ignored is what
\* is_wallet_ignored answers, db_ok whether the database accepts the
\* statements, redis_ok whether the XADD goes through.
DecoderHandleMessage ==
    /\ drecord = NoRecord
    /\ hcount < MaxDecoded
    /\ \E tx_hash \in {""} \cup TxHashes, ignored \in BOOLEAN,
          db_ok \in BOOLEAN, redis_ok \in BOOLEAN :
         LET record == DecodeRawEvent(draw)
             ended(outcome) == [outcome |-> outcome, tx_hash |-> tx_hash,
                                decode_confidence |-> record.decode_confidence]
         IN /\ drecord' = record
            /\ IF tx_hash = ""
               THEN \* ValueError("missing tx_hash")
                    /\ hlast' = ended("raised")
                    /\ UNCHANGED <<htrades, hpublished>>
               ELSE IF record.wallet_address # "" /\ db_ok /\ ignored
               THEN /\ hlast' = ended("skipped")
                    /\ UNCHANGED <<htrades, hpublished>>
               ELSE IF ~db_ok \/ ~TradeCheckConstraint(record)
               THEN /\ hlast' = ended("raised")
                    /\ UNCHANGED <<htrades, hpublished>>
               ELSE /\ htrades' = [htrades EXCEPT
                                      ![tx_hash] = record.decode_confidence]
                    /\ IF ~ShouldPublish(record)
                       THEN /\ hlast' = ended("stored")
                            /\ UNCHANGED hpublished
                       ELSE IF redis_ok
                       THEN /\ hlast' = ended("published")
                            /\ hpublished' = Append(hpublished,
                                  [tx_hash |-> tx_hash,
                                   decode_confidence |->
                                       record.decode_confidence])
                       ELSE /\ hlast' = ended("raised")
                            /\ UNCHANGED hpublished
    /\ hcount' = hcount + 1
    /\ UNCHANGED draw
    /\ UNCHANGED notHandleVars

\* process_batch: the next message is the same log again (a retry or a
\* second delivery), with whatever the token lookups answer this time.
NextDelivery ==
    /\ drecord # NoRecord
    /\ \E token0 \in {"", "tok0"}, token1 \in {"", "tok1"} :
          draw' = [draw EXCEPT !.token0 = token0, !.token1 = token1]
    /\ drecord' = NoRecord
    /\ UNCHANGED notDecodeVars

HandleParked ==
    /\ htrades = [t \in TxHashes |-> NoConfidence]
    /\ hpublished = <<>>
    /\ hlast = NotHandled
    /\ hcount = 0

(***************************************************************************)
(* utils/http_client.py: HttpClient.request and get_json with the circuit  *)
(* breaker.  The client of services.py is one module-level object used by  *)
(* every request handler of the API, so several calls can be in progress   *)
(* on it; a call gives way to the others at each await (the network        *)
(* request and the backoff sleep).                                         *)
(***************************************************************************)
MaxMono == 40
MonoStep == 10
retry_attempts == 3
circuit_breaker_threshold == 4
circuit_breaker_timeout == 30
HttpTasks == {1, 2}

IdleCall == [pc |-> "idle", kind |-> "none", attempt |-> 0, outer |-> 0]
NoCallStep == [event |-> "none", task |-> 0, was_open |-> FALSE,
               failures |-> 0, opened_until |-> NoTime]

\* _circuit_open: the answer and the fields after the call.
CircuitOpen(failure_count, open_until, t) ==
    IF open_until = NoTime
    THEN [open |-> FALSE, failure_count |-> failure_count,
          open_until |-> NoTime]
    ELSE IF t >= open_until
    THEN [open |-> FALSE, failure_count |-> 0, open_until |-> NoTime]
    ELSE [open |-> TRUE, failure_count |-> failure_count,
          open_until |-> open_until]

\* _record_failure
RecordFailure(failure_count, open_until, t) ==
    [failure_count |-> failure_count + 1,
     open_until |-> IF failure_count + 1 >= circuit_breaker_threshold
                    THEN t + circuit_breaker_timeout ELSE open_until]

\* The circuit as time.monotonic() and the fields show it, without the side
\* effect of _circuit_open.
IsOpenNow == copen # NoTime /\ cnow < copen

CallStep(event, t, failures) ==
    [event |-> event, task |-> t, was_open |-> IsOpenNow,
     failures |-> failures, opened_until |-> NoTime]

\* request or get_json is called: the check(s) of the circuit and, when it
\* is closed, the first network request.
HttpCall(t) ==
    /\ ctask[t].pc = "idle"
    /\ \E kind \in {"request", "get_json"} :
         LET c == CircuitOpen(cfail, copen, cnow)
         IN /\ cfail' = c.failure_count
            /\ copen' = c.open_until
            /\ IF c.open
               THEN /\ clast' = CallStep("refused", t, c.failure_count)
                    /\ UNCHANGED ctask
               ELSE /\ clast' = CallStep("sent", t, c.failure_count)
                    /\ ctask' = [ctask EXCEPT ![t] =
                          [pc |-> "inflight", kind |-> kind, attempt |-> 1,
                           outer |-> 1]]
    /\ UNCHANGED cnow
    /\ UNCHANGED notCircuitVars

\* The network request of a call ends: an error (HTTPError, a timeout, a 4xx
\* or 5xx status), a response with a JSON body, or a response whose body
\* does not parse.
HttpResponse(t) ==
    /\ ctask[t].pc = "inflight"
    /\ \E outcome \in {"error", "json", "not_json"} :
         LET me == ctask[t]
             f == RecordFailure(cfail, copen, cnow)
             fo == CircuitOpen(f.failure_count, f.open_until, cnow)
             \* after _record_success, the body fails to parse in get_json
             j == RecordFailure(0, NoTime, cnow)
             jo == CircuitOpen(j.failure_count, j.open_until, cnow)
         IN IF outcome = "error"
            THEN /\ cfail' = fo.failure_count
                 /\ copen' = fo.open_until
                 /\ clast' = [CallStep("failed", t, fo.failure_count)
                                 EXCEPT !.opened_until = f.open_until]
                 /\ ctask' = [ctask EXCEPT ![t] =
                       IF fo.open \/ me.attempt >= retry_attempts
                       THEN IdleCall
                       ELSE [me EXCEPT !.pc = "backoff"]]
            ELSE IF me.kind = "request" \/ outcome = "json"
            THEN /\ cfail' = 0
                 /\ copen' = NoTime
                 /\ clast' = CallStep("succeeded", t, 0)
                 /\ ctask' = [ctask EXCEPT ![t] = IdleCall]
            ELSE /\ cfail' = jo.failure_count
                 /\ copen' = jo.open_until
                 /\ clast' = CallStep("unparsed", t, jo.failure_count)
                 /\ ctask' = [ctask EXCEPT ![t] =
                       IF jo.open \/ me.outer >= retry_attempts
                       THEN IdleCall
                       ELSE [me EXCEPT !.pc = "outer_backoff"]]
    /\ UNCHANGED cnow
    /\ UNCHANGED notCircuitVars

\* asyncio.sleep(backoff) returns.  The loop of request sends its next
\* attempt; the loop of get_json calls request again, which checks the
\* circuit first.
HttpBackoffOver(t) ==
    /\ ctask[t].pc \in {"backoff", "outer_backoff"}
    /\ LET me == ctask[t]
           c == CircuitOpen(cfail, copen, cnow)
       IN IF me.pc = "backoff"
          THEN /\ clast' = CallStep("sent", t, cfail)
               /\ ctask' = [ctask EXCEPT ![t] =
                     [me EXCEPT !.pc = "inflight", !.attempt = @ + 1]]
               /\ UNCHANGED <<cfail, copen>>
          ELSE /\ cfail' = c.failure_count
               /\ copen' = c.open_until
               /\ IF c.open
                  THEN /\ clast' = CallStep("refused", t, c.failure_count)
                       /\ ctask' = [ctask EXCEPT ![t] = IdleCall]
                  ELSE /\ clast' = CallStep("sent", t, c.failure_count)
                       /\ ctask' = [ctask EXCEPT ![t] =
                             [me EXCEPT !.pc = "inflight", !.attempt = 1,
                                        !.outer = @ + 1]]
    /\ UNCHANGED cnow
    /\ UNCHANGED notCircuitVars

\* time.monotonic() moves on.
MonoTick ==
    /\ cnow + MonoStep <= MaxMono
    /\ cnow' = cnow + MonoStep
    /\ clast' = NoCallStep
    /\ UNCHANGED <<cfail, copen, ctask>>
    /\ UNCHANGED notCircuitVars

CircuitParked ==
    /\ cfail = 0
    /\ copen = NoTime
    /\ cnow = 0
    /\ ctask = [t \in HttpTasks |-> IdleCall]
    /\ clast = NoCallStep

(***************************************************************************)
(* The loops of the workers: listen_chain of worker_listener_evm.py and    *)
(* run_worker of the decoder, the risk worker, the Profiler, the Alerts    *)
(* worker, the outcome evaluator and the autopilot.  Each worker is its    *)
(* own process with its own stop event; install_shutdown_handlers sets it  *)
(* on SIGINT and SIGTERM.  A timed wait is wait_for(stop_event.wait(),     *)
(* timeout): it ends when the time is up or when the event is set.         *)
(***************************************************************************)
MaxFails == 7
RECONNECT_BASE_SECONDS == 1
RECONNECT_MAX_SECONDS == 30

BatchWorkers == {"decoder-1", "risk-worker-1"}
\* run_worker lets an exception of the iteration end the process
PlainCycleWorkers == {"profiler-worker", "alerts-worker"}
\* run_worker logs an exception of the iteration and goes on
GuardedCycleWorkers == {"outcome-evaluator", "watchlist-autopilot"}
LoopWorkers == {"listener-evm"} \cup BatchWorkers \cup PlainCycleWorkers
                   \cup GuardedCycleWorkers

NoWait == [n |-> 0, seconds |-> 0]

\* A loop that does not look at the stop event.
LoopContinuesAlways(stop) == TRUE

\* while not stop_event.is_set()
LoopContinues(stop) == ~stop

\* An iteration begins: counted when the stop event is already set.
BeginsIteration == slate' = IF sstop THEN slate + 1 ELSE slate

\* _handle_signal: SIGINT or SIGTERM arrives.
SetStop ==
    /\ ~sstop
    /\ spc # "exited"
    /\ sstop' = TRUE
    /\ sstopAt' = spc
    /\ UNCHANGED <<sworker, swatch, spc, sbackoff, sfails, swait, slate>>
    /\ UNCHANGED notLoopVars

\* The head of the loop of run_worker or of listen_chain.
LoopHead ==
    /\ spc = "head"
    /\ IF ~LoopContinues(sstop)
       THEN spc' = "exited" /\ UNCHANGED slate
       ELSE IF sworker = "listener-evm"
       THEN IF swatch
            THEN spc' = "connecting" /\ BeginsIteration
            ELSE spc' = "idle_wait" /\ BeginsIteration
       ELSE spc' = "run" /\ BeginsIteration
    /\ UNCHANGED <<sworker, swatch, sstop, sbackoff, sfails, swait, sstopAt>>
    /\ UNCHANGED notLoopVars

\* process_batch, run_once, run_outcome_evaluator_once or run_autopilot_once
\* returns or raises.
IterationEnds ==
    /\ spc = "run"
    /\ \E result \in {"none", "some", "raised"} :
          spc' = IF sworker \in BatchWorkers
                 THEN (IF result = "raised" THEN "exited"
                       ELSE IF result = "none" THEN "wait" ELSE "head")
                 ELSE IF sworker \in PlainCycleWorkers
                 THEN (IF result = "raised" THEN "exited" ELSE "wait")
                 ELSE "wait"
    /\ UNCHANGED <<sworker, swatch, sstop, sbackoff, sfails, swait, slate,
                   sstopAt>>
    /\ UNCHANGED notLoopVars

\* A timed wait ends: the idle wait of a batch worker, the sleep between two
\* cycles, the listener's wait without addresses or its reconnect backoff.
WaitEnds ==
    /\ spc \in {"wait", "idle_wait", "backoff_wait"}
    /\ spc' = "head"
    /\ sbackoff' = IF spc = "backoff_wait"
                   THEN Min(sbackoff * 2, RECONNECT_MAX_SECONDS)
                   ELSE sbackoff
    /\ UNCHANGED <<sworker, swatch, sstop, sfails, swait, slate, sstopAt>>
    /\ UNCHANGED notLoopVars

\* The except branch of listen_chain: the reconnect wait begins.
ConnectionError ==
    /\ sfails' = sfails + 1
    /\ swait' = [n |-> sfails + 1, seconds |-> sbackoff]
    /\ spc' = "backoff_wait"

\* websockets.connect and the eth_subscribe request.
ListenerConnect ==
    /\ spc = "connecting"
    /\ \/ /\ sbackoff' = RECONNECT_BASE_SECONDS
          /\ spc' = "recv_head"
          /\ UNCHANGED <<sfails, swait>>
       \/ /\ sfails < MaxFails
          /\ ConnectionError
          /\ UNCHANGED sbackoff
    /\ UNCHANGED <<sworker, swatch, sstop, slate, sstopAt>>
    /\ UNCHANGED notLoopVars

\* The head of the receive loop; leaving it closes the socket.
ListenerRecvHead ==
    /\ spc = "recv_head"
    /\ IF ~LoopContinues(sstop)
       THEN spc' = "head" /\ UNCHANGED slate
       ELSE spc' = "recv" /\ BeginsIteration
    /\ UNCHANGED <<sworker, swatch, sstop, sbackoff, sfails, swait, sstopAt>>
    /\ UNCHANGED notLoopVars

\* wait_for(socket.recv(), timeout=1.0): nothing within the second, a
\* message (handled and, for a log, published), or an exception.
ListenerRecv ==
    /\ spc = "recv"
    /\ \/ /\ spc' = "recv_head"
          /\ UNCHANGED <<sfails, swait>>
       \/ /\ spc' = "recv_head"
          /\ sfails' = 0
          /\ UNCHANGED swait
       \/ /\ sfails < MaxFails
          /\ ConnectionError
    /\ UNCHANGED <<sworker, swatch, sstop, sbackoff, slate, sstopAt>>
    /\ UNCHANGED notLoopVars

LoopStep ==
    \/ LoopHead
    \/ IterationEnds
    \/ WaitEnds
    \/ ListenerConnect
    \/ ListenerRecvHead
    \/ ListenerRecv

LoopParked ==
    /\ sworker = "listener-evm"
    /\ swatch = FALSE
    /\ sstop = FALSE
    /\ spc = "head"
    /\ sbackoff = RECONNECT_BASE_SECONDS
    /\ sfails = 0
    /\ swait = NoWait
    /\ slate = 0
    /\ sstopAt = "none"

(***************************************************************************)
(* utils/ops.py: heartbeat_loop, started by the run_worker of a worker     *)
(* that calls start_heartbeat.  The key titan:hb:{worker_name} is what     *)
(* /ops/health of main.py reads for each worker of OPS_WORKERS.            *)
(***************************************************************************)
MaxBeat == 120
HEARTBEAT_INTERVAL_SECONDS == 15
HeartbeatTtl == HEARTBEAT_INTERVAL_SECONDS * 4

\* The workers whose run_worker calls start_heartbeat.
HeartbeatWorkers == {"decoder-1", "alerts-worker"}

\* A Redis key at time t: gone once its expiry time is reached.
KeyAt(expires, t) == IF expires # NoTime /\ expires <= t THEN NoTime ELSE expires

\* run_worker starts; a worker with a heartbeat creates the task.
BeatWorkerStarts ==
    /\ balive = "new"
    /\ balive' = "running"
    /\ bnext' = IF bworker \in HeartbeatWorkers THEN bnow ELSE NoTime
    /\ UNCHANGED <<bworker, bnow, bkey, bwritten, bstopped>>
    /\ UNCHANGED notBeatVars

\* heartbeat_loop: redis.set(key, now, ex=60), then sleep(15).  An exception
\* of redis.set ends the task; nothing restarts it.
HeartbeatLoop ==
    /\ balive = "running"
    /\ bnext = bnow
    /\ \E redis_ok \in BOOLEAN :
          IF redis_ok
          THEN /\ bkey' = bnow + HeartbeatTtl
               /\ bwritten' = bnow
               /\ bnext' = bnow + HEARTBEAT_INTERVAL_SECONDS
          ELSE /\ bnext' = NoTime
               /\ UNCHANGED <<bkey, bwritten>>
    /\ UNCHANGED <<bworker, bnow, balive, bstopped>>
    /\ UNCHANGED notBeatVars

\* run_worker returns: stop_heartbeat cancels the task.
BeatWorkerStops ==
    /\ balive = "running"
    /\ bnext # bnow
    /\ balive' = "stopped"
    /\ bnext' = NoTime
    /\ bstopped' = bnow
    /\ UNCHANGED <<bworker, bnow, bkey, bwritten>>
    /\ UNCHANGED notBeatVars

\* Time passes; a write that is due happens first.
BeatTick ==
    /\ balive # "new"
    /\ bnext # bnow
    /\ bnow + HEARTBEAT_INTERVAL_SECONDS <= MaxBeat
    /\ bnow' = bnow + HEARTBEAT_INTERVAL_SECONDS
    /\ bkey' = KeyAt(bkey, bnow + HEARTBEAT_INTERVAL_SECONDS)
    /\ UNCHANGED <<bworker, balive, bnext, bwritten, bstopped>>
    /\ UNCHANGED notBeatVars

BeatParked ==
    /\ bworker = "listener-evm"
    /\ bnow = 0
    /\ balive = "new"
    /\ bkey = NoTime
    /\ bnext = NoTime
    /\ bwritten = NoTime
    /\ bstopped = NoTime

(***************************************************************************)
(* worker_outcome_evaluator.py: the select of run_outcome_evaluator_once   *)
(* with its order_by(created_at) and limit.  EvalSelectLimit stands for    *)
(* the limit(200) of the code.                                             *)
(***************************************************************************)
EvalSelectLimit == 2
MaxQueue == 5

\* An alert row as the evaluator reads it: a wallet_tier alert has no
\* token_address.
QueueAlerts == {[alert_type |-> ALERT_TYPE, token_address |-> "tokA"],
                [alert_type |-> ALERT_TYPE, token_address |-> "tokB"],
                [alert_type |-> TIER_ALERT_TYPE, token_address |-> ""]}

\* The select of one horizon: the oldest EvalSelectLimit alerts that have no
\* outcome of the horizon.
SelectedAlerts(horizon_minutes) ==
    LET pending == {k \in DOMAIN qalerts :
                       <<k, horizon_minutes>> \notin qoutcomes}
    IN {k \in pending :
           Cardinality({j \in pending : j < k}) < EvalSelectLimit}

\* The tokens of the alerts.
QueueTokens == {"tokA", "tokB"}

NoRun == [evaluated |-> {}, failed |-> {}]

\* run_outcome_evaluator_once: for each horizon the selected alerts are
\* evaluated, one without token_address gives no outcome, and the rows are
\* committed after the last horizon.  down holds the tokens whose price
\* series needs DexScreener while the lookup raises: the exception leaves
\* run_outcome_evaluator_once before the commit.
EvaluatorRun(down) ==
    LET evaluated ==
            {p \in (DOMAIN qalerts)
                      \X {HORIZONS_MINUTES[h] : h \in DOMAIN HORIZONS_MINUTES} :
                /\ p[1] \in SelectedAlerts(p[2])
                /\ qalerts[p[1]].token_address # ""}
        raised == \E p \in evaluated : qalerts[p[1]].token_address \in down
    IN /\ qoutcomes' = IF raised THEN qoutcomes ELSE qoutcomes \cup evaluated
       /\ qlast' = [evaluated |-> evaluated, failed |-> down]
       /\ UNCHANGED qalerts
       /\ UNCHANGED notQueueVars

EvaluatorRunOnce == \E down \in SUBSET QueueTokens : EvaluatorRun(down)

\* The age of one more alert reaches the horizons.
AlertComesOfAge ==
    /\ Len(qalerts) < MaxQueue
    /\ \E alert \in QueueAlerts : qalerts' = Append(qalerts, alert)
    /\ UNCHANGED <<qoutcomes, qlast>>
    /\ UNCHANGED notQueueVars

QueueParked ==
    /\ qalerts = <<>>
    /\ qoutcomes = {}
    /\ qlast = NoRun

(***************************************************************************)
(* worker_outcome_evaluator.py: _evaluate_alert_horizon as a function of   *)
(* the alert, the risk snapshots of its token and the price series.        *)
(* Times are minutes after alert.created_at, prices are whole numbers and  *)
(* gains are in percent.                                                   *)
(***************************************************************************)
MaxSnapshots == 2
HorizonMinutes == 30
MinExitSizeUsd == 1000
CRITICAL_RISK_FLAGS ==
    {"honeypot", "cannot_sell", "liquidity_floor_breach", "liquidity_pull"}

\* A snapshot of components.history: its time (updated_at, timestamp or ts),
\* its flags, the first boolean among its keys sellability, sellable and
\* can_sell ("unset" when none is a boolean) and max_suggested_size_usd.
Snapshots ==
    [at : {NoTime, 10, 20, 40},
     flags : {{}, {"honeypot"}},
     sellable : {"unset", "True", "False"},
     max_suggested_size_usd : {NoFloat, 5000}]

\* What _price_series returns as prices.
PriceSeries ==
    {<<>>, <<<<5, 100>>>>, <<<<5, 100>>, <<15, 150>>>>,
     <<<<15, 100>>, <<25, 80>>>>}

HorizonAlerts == [token_address : {"", "tokA"}, entry_price : {NoFloat, 100}]

NoOutcome == [alert_id |-> "none"]

SelectSnapshots(snapshots, keep(_)) ==
    LET RECURSIVE Sel(_)
        Sel(k) == IF k > Len(snapshots) THEN <<>>
                  ELSE IF keep(snapshots[k])
                       THEN <<snapshots[k]>> \o Sel(k + 1)
                       ELSE Sel(k + 1)
    IN Sel(1)

\* _risk_window_assessment: sellable, trap_flag, risk_insufficient and the
\* snapshots inside [start, end].
RiskWindowAssessment(snapshots, start, end) ==
    LET InWindow(s) == s.at # NoTime /\ start <= s.at /\ s.at <= end
        in_window == SelectSnapshots(snapshots, InWindow)
    IN IF Len(in_window) < 2
       THEN [sellable |-> "None", trap_flag |-> FALSE,
             risk_insufficient |-> TRUE, in_window |-> in_window]
       ELSE IF \E k \in DOMAIN in_window :
                  in_window[k].flags \cap CRITICAL_RISK_FLAGS # {}
       THEN [sellable |-> "False", trap_flag |-> TRUE,
             risk_insufficient |-> FALSE, in_window |-> in_window]
       ELSE [sellable |-> "True", trap_flag |-> FALSE,
             risk_insufficient |-> FALSE, in_window |-> in_window]

\* _snapshot_sellable
SnapshotSellable(snapshot) ==
    IF snapshot.sellable # "unset" THEN snapshot.sellable = "True"
    ELSE snapshot.flags \cap CRITICAL_RISK_FLAGS = {}

\* _is_exit_feasible_snapshot
IsExitFeasibleSnapshot(snapshot) ==
    /\ snapshot.max_suggested_size_usd # NoFloat
    /\ snapshot.max_suggested_size_usd >= MinExitSizeUsd
    /\ SnapshotSellable(snapshot)

\* _price_series: prices_insufficient
PricesInsufficient(prices) == Len(prices) < 2

\* _entry_price
EntryPrice(alert, prices) ==
    IF alert.entry_price # NoFloat /\ alert.entry_price > 0
    THEN alert.entry_price
    ELSE IF prices # <<>> THEN prices[1][2] ELSE NoFloat

Gain(price, entry_price) == (price * 100) \div entry_price - 100

\* _exit_feasible_peak: the gain and was_sellable_entire_window.  The snapshot
\* bisect_right finds for a price is the last of the sorted <<time, feasible>>
\* pairs whose time is not after the price's.
ExitFeasiblePeak(prices, in_window, entry_price) ==
    LET none == [gain |-> NoFloat, sellable |-> "False"]
        AtOrBefore(t) == {k \in DOMAIN in_window : in_window[k].at <= t}
        Latest(t) == {k \in AtOrBefore(t) :
                         \A j \in AtOrBefore(t) :
                             in_window[j].at <= in_window[k].at}
        FeasibleAt(t) == \E k \in Latest(t) :
                             IsExitFeasibleSnapshot(in_window[k])
        gains == {Gain(prices[p][2], entry_price) :
                     p \in {q \in DOMAIN prices : FeasibleAt(prices[q][1])}}
    IN IF prices = <<>> \/ in_window = <<>> THEN none
       ELSE IF ~\E k \in DOMAIN in_window :
                   IsExitFeasibleSnapshot(in_window[k])
       THEN none
       ELSE IF gains = {} THEN none
       ELSE [gain |-> CHOOSE g \in gains : \A o \in gains : o <= g,
             sellable |->
                 IF \A k \in DOMAIN in_window :
                        IsExitFeasibleSnapshot(in_window[k])
                 THEN "True" ELSE "False"]

\* _evaluate_alert_horizon for an alert that has a token_address.
SignalOutcomeOf(alert, snapshots, prices) ==
    LET a == RiskWindowAssessment(snapshots, 0, HorizonMinutes)
        entry_price == EntryPrice(alert, prices)
        priced == ~PricesInsufficient(prices) /\ entry_price # NoFloat
                  /\ entry_price > 0
        peak == ExitFeasiblePeak(prices, a.in_window, entry_price)
    IN [alert_id |-> "a1",
        horizon_minutes |-> HorizonMinutes,
        was_sellable_entire_window |->
            IF ~priced THEN a.sellable
            ELSE IF peak.gain = NoFloat THEN "False"
            ELSE peak.sellable,
        exit_feasible_peak_gain |-> IF priced THEN peak.gain ELSE NoFloat,
        trap_flag |-> a.trap_flag,
        risk_insufficient |-> a.risk_insufficient,
        snapshots_in_window |-> Len(a.in_window),
        priced |-> priced]

\* _evaluate_alert_horizon
EvaluateAlertHorizon ==
    /\ houtcome = NoOutcome
    /\ halert.token_address # ""
    /\ houtcome' = SignalOutcomeOf(halert, hsnapshots, hprices)
    /\ UNCHANGED <<halert, hsnapshots, hprices>>
    /\ UNCHANGED notHorizonVars

HorizonParked ==
    /\ halert = [token_address |-> "", entry_price |-> NoFloat]
    /\ hsnapshots = <<>>
    /\ hprices = <<>>
    /\ houtcome = NoOutcome

(***************************************************************************)
(* services/merit.py: run_merit_update_once for one wallet, cycle after    *)
(* cycle, while the outcomes the statistics are taken from stay the same.  *)
(* merit_score is in 1e-8 as stored and is read back to six decimals,      *)
(* which keeps the products within 32 bits; avg_contribution is in 1e-6.   *)
(***************************************************************************)
CycleWallets ==
    [tier : {"ocean", "shadow", "titan", "ignore"},
     source : {"seed_pack", "autopilot"},
     merit_score : {0, 9000000},
     prior_weight : {0, 2}]

CycleStats ==
    {[sample_size |-> 0, positive_count |-> 0, avg_contribution |-> 0],
     [sample_size |-> 12, positive_count |-> 3, avg_contribution |-> -100000],
     [sample_size |-> 12, positive_count |-> 0, avg_contribution |-> -100000],
     [sample_size |-> 20, positive_count |-> 5, avg_contribution |-> 333333]}

\* The merit _next_tier compares with the thresholds, in 1e-4 and cut
\* towards zero (the upper threshold is positive, the lower one negative).
MeritForTier(x) ==
    IF x >= 0 THEN x \div 10000 ELSE -((-x) \div 10000)

\* One cycle of run_merit_update_once over the wallet.
MeritCycleWallet ==
    /\ LET merit == NewMeritScore(
                        [merit_score |-> cwallet.merit_score \div 100,
                         prior_weight |-> cwallet.prior_weight],
                        cstats.sample_size, cstats.avg_contribution)
           stats == [sample_size |-> cstats.sample_size,
                     positive_count |-> cstats.positive_count,
                     merit |-> MeritForTier(merit)]
       IN cwallet' = [cwallet EXCEPT
                         !.merit_score = merit,
                         !.tier = NextTier(cwallet.tier, cwallet.source,
                                           stats)]
    /\ UNCHANGED cstats
    /\ UNCHANGED notCycleVars

CycleParked ==
    /\ cwallet = [tier |-> "ocean", source |-> "autopilot", merit_score |-> 0,
                  prior_weight |-> 0]
    /\ cstats = [sample_size |-> 0, positive_count |-> 0,
                 avg_contribution |-> 0]

(***************************************************************************)
(* The Trade row of a decoded record as worker_alerts.py and               *)
(* worker_profiler.py read it.                                             *)
(***************************************************************************)
\* float(trade.usd_value or 0.0) of _netev_gate and _safe_float(trade.amount)
\* of _apply_trade; a missing amount leaves the position as an amount of 0
\* does.
DecodedTrade(record) ==
    [chain |-> "ethereum",
     wallet |-> record.wallet_address,
     token |-> record.token_address,
     pair |-> record.pair_address,
     side |-> record.side,
     usd |-> IF record.usd_value = NoFloat THEN 0 ELSE record.usd_value,
     amount |-> IF record.amount = NoFloat THEN 0 ELSE record.amount]

\* The positions a trade may be folded into.
HeldPositions ==
    {[quantity |-> 0, average_price |-> NoAverage],
     [quantity |-> 3, average_price |-> 10]}

(***************************************************************************)
(* worker_risk.py: enqueue_risk_job for the decoded trades, with the one   *)
(* Redis set all (chain, token) values are deduplicated in.  Times are in  *)
(* seconds.                                                                *)
(***************************************************************************)
RISK_DEDUPLICATION_TTL_SECONDS == 60
JobTickSeconds == 15
MaxJobAge == 120

\* The tokens followed; "unseen" stands for a token that has had no trade
\* before, a different one each time.
JobTokens == {"tokA", "tokB"}
TradedTokens == JobTokens \cup {"unseen"}

\* handle_decoded_trade and enqueue_risk_job with dedupe_with_ttl: SADD, and
\* for a new member EXPIRE of the whole key and the publish to risk_jobs.
\* For a member of the set nothing is published and the key keeps its expiry.
HandleDecodedTrade(token) ==
    /\ token \notin jset
    /\ jset' = IF token \in JobTokens THEN jset \cup {token} ELSE jset
    /\ jttl' = RISK_DEDUPLICATION_TTL_SECONDS
    /\ jage' = [t \in JobTokens |-> IF t = token THEN 0 ELSE jage[t]]
    /\ UNCHANGED notJobVars

\* Time passes; a key whose time is up no longer exists.
JobTick ==
    /\ jttl' = IF jttl = NoTtl \/ jttl - JobTickSeconds <= 0 THEN NoTtl
               ELSE jttl - JobTickSeconds
    /\ jset' = IF jttl' = NoTtl THEN {} ELSE jset
    /\ jage' = [t \in JobTokens |->
                   IF jage[t] = NoTime THEN NoTime
                   ELSE Min(jage[t] + JobTickSeconds, MaxJobAge)]
    /\ UNCHANGED notJobVars

JobParked ==
    /\ jset = {}
    /\ jttl = NoTtl
    /\ jage = [t \in JobTokens |-> NoTime]

(***************************************************************************)
(* worker_profiler.py: run_once in two instances, each with a session of   *)
(* its own.  A select sees the committed rows and the rows its own session *)
(* has flushed; the rows of a session reach the table at its commit.  The  *)
(* trades do not change here, so an update of an existing row writes the   *)
(* values the row already has.                                            *)
(***************************************************************************)
MaxTwinRuns == 2

NoSession == [positions |-> <<>>, metrics |-> <<>>]

\* The rows a run adds to a table: those past the rows that were visible.
AddedRows(visible, result) == SubSeq(result, Len(visible) + 1, Len(result))

\* run_once up to its first statement.
TwinBegin(i) ==
    /\ tpc[i] = 0
    /\ truns[i] < MaxTwinRuns
    /\ tpc' = [tpc EXCEPT ![i] = 1]
    /\ UNCHANGED <<tpositions, tmetrics, tsession, truns>>
    /\ UNCHANGED notTwinVars

\* One pass of run_once's loop over the wallets: _upsert_positions and
\* _upsert_wallet_metric against what the session sees.
TwinProfileWallet(i) ==
    /\ tpc[i] \in 1..Len(WalletOrder)
    /\ LET w == WalletOrder[tpc[i]]
           seenPositions == tpositions \o tsession[i].positions
           seenMetrics == tmetrics \o tsession[i].metrics
       IN tsession' =
              IF TokensOf(w) = {} \/ IsWalletIgnored(w) THEN tsession
              ELSE [tsession EXCEPT ![i] =
                       [positions |->
                            AddedRows(tpositions,
                                UpsertPositions(seenPositions, w, TokensOf(w))),
                        metrics |->
                            AddedRows(tmetrics,
                                UpsertWalletMetric(seenMetrics, w,
                                                   TotalValue(w)))]]
    /\ tpc' = [tpc EXCEPT ![i] = @ + 1]
    /\ UNCHANGED <<tpositions, tmetrics, truns>>
    /\ UNCHANGED notTwinVars

\* session.commit() at the end of run_once.
TwinCommit(i) ==
    /\ tpc[i] = Len(WalletOrder) + 1
    /\ tpositions' = tpositions \o tsession[i].positions
    /\ tmetrics' = tmetrics \o tsession[i].metrics
    /\ tsession' = [tsession EXCEPT ![i] = NoSession]
    /\ tpc' = [tpc EXCEPT ![i] = 0]
    /\ truns' = [truns EXCEPT ![i] = @ + 1]
    /\ UNCHANGED notTwinVars

TwinParked ==
    /\ tpositions = <<>>
    /\ tmetrics = <<>>
    /\ tpc = [i \in Instances |-> 0]
    /\ tsession = [i \in Instances |-> NoSession]
    /\ truns = [i \in Instances |-> 0]

MoreParked ==
    /\ RankParked
    /\ HandleParked
    /\ CircuitParked
    /\ LoopParked
    /\ BeatParked
    /\ QueueParked
    /\ HorizonParked
    /\ CycleParked
    /\ JobParked
    /\ TwinParked
(***************************************************************************)
(* Initial states.  A specification starts the workers it drives from      *)
(* their own initial state and parks the state of the others.              *)
(***************************************************************************)
SharedParked ==
    /\ now = 0
    /\ watchPairs = InitialWatchPairs

RestParked ==
    /\ SessionParked /\ ListenParked /\ FoldParked /\ MeritParked
    /\ MoreParked

AlertsParked ==
    /\ tiers = [w \in Wallets |-> "absent"]
    /\ metrics = <<>>
    /\ positions = <<>>
    /\ tokenRisk = {}
    /\ alerts = <<>>
    /\ apc = [i \in Instances |-> "idle"]
    /\ atodo = [i \in Instances |-> {}]
    /\ asession = [i \in Instances |-> <<>>]
    /\ plast = [runs |-> 0, skipped |-> {}]

FirstParked ==
    /\ AlertsParked /\ StreamParked /\ DedupeParked
    /\ EvalParked /\ AutoParked /\ DecodeParked

AlertsInit ==
    /\ SharedParked
    /\ tiers \in {[w \in Wallets |-> IF w = "w1" THEN a ELSE b] :
                    a \in {"ignore", "ocean"}, b \in {"absent", "ignore"}}
    /\ metrics = <<>>
    /\ positions = <<>>
    /\ tokenRisk \in {{}, Tokens}
    /\ alerts = <<>>
    /\ apc = [i \in Instances |-> "idle"]
    /\ atodo = [i \in Instances |-> {}]
    /\ asession = [i \in Instances |-> <<>>]
    /\ plast = [runs |-> 0, skipped |-> {}]
    /\ StreamParked /\ DedupeParked /\ EvalParked /\ AutoParked /\ DecodeParked
    /\ RestParked

\* Two Alerts worker instances against the same database, started on the
\* tables as one Profiler run over the trades has left them.
AlertsConcInit ==
    /\ SharedParked
    /\ tiers = [w \in Wallets |-> IF w = "w1" THEN "ocean" ELSE "ignore"]
    /\ LET done == ProfileWallets([positions |-> <<>>, metrics |-> <<>>,
                                   alerts |-> <<>>], 1)
       IN /\ metrics = done.metrics
          /\ positions = done.positions
          /\ alerts = done.alerts
    /\ tokenRisk = Tokens
    /\ apc = [i \in Instances |-> "idle"]
    /\ atodo = [i \in Instances |-> {}]
    /\ asession = [i \in Instances |-> <<>>]
    /\ plast = [runs |-> 1, skipped |-> {"w2"}]
    /\ StreamParked /\ DedupeParked /\ EvalParked /\ AutoParked /\ DecodeParked
    /\ RestParked

StreamInit ==
    /\ SharedParked /\ AlertsParked /\ StreamParked /\ DedupeParked
    /\ EvalParked /\ AutoParked /\ DecodeParked
    /\ RestParked

DedupeInit ==
    /\ SharedParked /\ AlertsParked /\ StreamParked /\ DedupeParked
    /\ EvalParked /\ AutoParked /\ DecodeParked
    /\ RestParked

EvalInit ==
    /\ SharedParked /\ AlertsParked /\ StreamParked /\ DedupeParked
    /\ EvalParked /\ AutoParked /\ DecodeParked
    /\ RestParked

AutoInit ==
    /\ SharedParked /\ AlertsParked /\ StreamParked /\ DedupeParked
    /\ EvalParked /\ AutoParked /\ DecodeParked
    /\ RestParked

DecodeInit ==
    /\ SharedParked /\ AlertsParked /\ StreamParked /\ DedupeParked
    /\ EvalParked /\ AutoParked /\ RestParked
    /\ draw \in RawEvents
    /\ drecord = NoRecord

SessionInit ==
    /\ SharedParked /\ FirstParked /\ RestParked

\* The listener starts with the addresses the operator configured, if any.
ListenInit ==
    /\ SharedParked /\ FirstParked /\ SessionParked
    /\ FoldParked /\ MeritParked /\ MoreParked
    /\ lwatchlist \in SUBSET ConfiguredAddresses
    /\ lconn = "connecting"
    /\ lfilter = {}

\* A fresh PositionState, as run_once creates one per (wallet, token).
FoldInit ==
    /\ SharedParked /\ FirstParked /\ RestParked

\* One wallet as a merit cycle may find it.
MeritInit ==
    /\ SharedParked /\ FirstParked /\ SessionParked /\ ListenParked
    /\ FoldParked /\ MoreParked
    /\ mwallet \in MeritWallets
    /\ msample \in SampleSizes
    /\ mruns = {}

\* Three high-merit wallets with the same tier, merit and prior, each with
\* one alert on the token and the same valid outcome.
RankInit ==
    /\ SharedParked /\ FirstParked
    /\ SessionParked /\ ListenParked /\ FoldParked /\ MeritParked
    /\ HandleParked /\ CircuitParked /\ LoopParked /\ BeatParked
    /\ QueueParked /\ HorizonParked /\ CycleParked /\ JobParked /\ TwinParked
    /\ \E tier \in {"ocean", "shadow"}, merit \in StartingMerits :
          /\ kwallets = [w \in RankWallets |->
                            [tier |-> tier, merit_score |-> merit,
                             source |-> "autopilot"]]
          /\ \A w \in RankWallets : HighMeritFilter(w)
    /\ kleft = RankWallets
    /\ \E g1, g2 \in AlertGaps :
          kalerts = [w \in RankWallets |->
                        IF w = "A" THEN 0 ELSE IF w = "B" THEN g1 ELSE g1 + g2]
    /\ kreturn \in NetReturns

\* A new HttpClient, no call in progress.
HttpInit ==
    /\ SharedParked /\ FirstParked /\ RestParked

\* One worker process at the start of its loop.
LoopInit ==
    /\ SharedParked /\ FirstParked
    /\ SessionParked /\ ListenParked /\ FoldParked /\ MeritParked
    /\ RankParked /\ HandleParked /\ CircuitParked /\ BeatParked
    /\ QueueParked /\ HorizonParked /\ CycleParked /\ JobParked /\ TwinParked
    /\ sworker \in LoopWorkers
    /\ swatch \in {sworker = "listener-evm", FALSE}
    /\ sstop = FALSE
    /\ spc = "head"
    /\ sbackoff = RECONNECT_BASE_SECONDS
    /\ sfails = 0
    /\ swait = NoWait
    /\ slate = 0
    /\ sstopAt = "none"

\* One worker process about to start, its heartbeat key absent.
BeatInit ==
    /\ SharedParked /\ FirstParked
    /\ SessionParked /\ ListenParked /\ FoldParked /\ MeritParked
    /\ RankParked /\ HandleParked /\ CircuitParked /\ LoopParked
    /\ QueueParked /\ HorizonParked /\ CycleParked /\ JobParked /\ TwinParked
    /\ bworker \in LoopWorkers
    /\ bnow \in {0, HEARTBEAT_INTERVAL_SECONDS}
    /\ balive = "new"
    /\ bkey = NoTime
    /\ bnext = NoTime
    /\ bwritten = NoTime
    /\ bstopped = NoTime

\* The alerts that are old enough when the evaluator starts, none evaluated.
QueueInit ==
    /\ SharedParked /\ FirstParked
    /\ SessionParked /\ ListenParked /\ FoldParked /\ MeritParked
    /\ RankParked /\ HandleParked /\ CircuitParked /\ LoopParked
    /\ BeatParked /\ HorizonParked /\ CycleParked /\ JobParked /\ TwinParked
    /\ qalerts \in UNION {[1..n -> QueueAlerts] : n \in 0..2}
    /\ qoutcomes = {}
    /\ qlast = NoRun

\* One alert with the risk snapshots and the prices of its window.
HorizonInit ==
    /\ SharedParked /\ FirstParked
    /\ SessionParked /\ ListenParked /\ FoldParked /\ MeritParked
    /\ RankParked /\ HandleParked /\ CircuitParked /\ LoopParked
    /\ BeatParked /\ QueueParked /\ CycleParked /\ JobParked /\ TwinParked
    /\ halert \in HorizonAlerts
    /\ hsnapshots \in UNION {[1..n -> Snapshots] : n \in 0..MaxSnapshots}
    /\ hprices \in PriceSeries
    /\ houtcome = NoOutcome

\* One wallet and the statistics of its outcomes.
CycleInit ==
    /\ SharedParked /\ FirstParked
    /\ SessionParked /\ ListenParked /\ FoldParked /\ MeritParked
    /\ RankParked /\ HandleParked /\ CircuitParked /\ LoopParked
    /\ BeatParked /\ QueueParked /\ HorizonParked /\ JobParked /\ TwinParked
    /\ cwallet \in CycleWallets
    /\ cstats \in CycleStats

\* The risk worker with an empty dedupe set.
JobInit ==
    /\ SharedParked /\ FirstParked
    /\ SessionParked /\ ListenParked /\ FoldParked /\ MeritParked
    /\ RankParked /\ HandleParked /\ CircuitParked /\ LoopParked
    /\ BeatParked /\ QueueParked /\ HorizonParked /\ CycleParked
    /\ JobParked /\ TwinParked

\* Two idle Profiler instances and empty positions and wallet_metrics.
TwinInit ==
    /\ SharedParked /\ FirstParked
    /\ SessionParked /\ ListenParked /\ FoldParked /\ MeritParked
    /\ RankParked /\ HandleParked /\ CircuitParked /\ LoopParked
    /\ BeatParked /\ QueueParked /\ HorizonParked /\ CycleParked
    /\ JobParked /\ TwinParked

(***************************************************************************)
(* Specifications.                                                         *)
(***************************************************************************)
\* One Alerts worker instance, the Profiler and the clock.
AlertsSeqNext ==
    \/ Tick
    \/ ProfilerRunOnce
    \/ AlertsBegin(1)
    \/ AlertsProcessTrade(1)
    \/ AlertsCommit(1)

SpecAlertsSeq == AlertsInit /\ [][AlertsSeqNext]_vars

\* Two Alerts worker instances and the clock.
AlertsConcNext ==
    \/ Tick
    \/ \E i \in Instances : AlertsBegin(i)
    \/ \E i \in Instances : AlertsProcessTrade(i)
    \/ \E i \in Instances : AlertsCommit(i)

SpecAlertsConc == AlertsConcInit /\ [][AlertsConcNext]_vars

\* A producer and the consumers of one group of a stream.
StreamNext ==
    \/ Publish
    \/ \E c \in Consumers : ConsumeFromStream(c)
    \/ \E c \in Consumers : HandleMessage(c)
    \/ \E c \in Consumers : ConsumerStops(c)

SpecStream == StreamInit /\ [][StreamNext]_vars

\* The same, with every consumer that keeps running reading and handling
\* again and again (the loop of run_worker).
SpecStreamFair ==
    /\ StreamInit
    /\ [][StreamNext]_vars
    /\ \A c \in Consumers : WF_vars(ConsumeFromStream(c))
    /\ \A c \in Consumers : WF_vars(HandleMessage(c))

\* Two listeners on the same Redis.
DedupeNext ==
    \/ RedisTick
    \/ \E l \in Listeners : ReceiveLog(l)
    \/ \E l \in Listeners : ExpireKey(l)
    \/ \E l \in Listeners : PublishLog(l)
    \/ \E l \in Listeners : PublishFails(l)

SpecDedupe == DedupeInit /\ [][DedupeNext]_vars

\* Two outcome evaluators and the clock.
EvalNext ==
    \/ Tick
    \/ \E e \in Evaluators : EvalBegin(e)
    \/ \E e \in Evaluators : EvalHorizon(e)
    \/ \E e \in Evaluators : EvalCommit(e)

SpecEval == EvalInit /\ [][EvalNext]_vars

\* The watchlist autopilot and the clock.
AutoNext ==
    \/ Tick
    \/ AutopilotIngest
    \/ AutopilotChurn

SpecAuto == AutoInit /\ [][AutoNext]_vars

\* The decoder over the raw events.
DecodeNext ==
    \/ DecodeEvent
    \/ NextRawEvent

SpecDecode == DecodeInit /\ [][DecodeNext]_vars


\* The risk worker and the decoder, each on its own session, and the clock.
SessionNext ==
    \/ Tick
    \/ ProcessRiskMessage
    \/ ProcessDecoderMessage

SpecSession == SessionInit /\ [][SessionNext]_vars

\* The listener of one chain, with the autopilot and the clock changing
\* watch_pairs under it.  The listener keeps trying to subscribe; the
\* socket may drop at any time.
ListenNext ==
    \/ Tick
    \/ AutopilotIngest
    \/ AutopilotChurn
    \/ ListenerSubscribe
    \/ ListenerDisconnect

SpecListenFair ==
    /\ ListenInit
    /\ [][ListenNext]_vars
    /\ WF_vars(ListenerSubscribe)

\* The Profiler, the seed ignore-list import and the clock.
ProfilerNext ==
    \/ Tick
    \/ ProfilerRunOnce
    \/ ImportIgnoreList

SpecProfiler == AlertsInit /\ [][ProfilerNext]_vars

\* One PositionState folded over any sequence of buys and sells.
FoldNext ==
    \/ ApplyNextTrade

SpecFold == FoldInit /\ [][FoldNext]_vars

\* One merit cycle of one wallet, for each avg_contribution it may find.
MeritNext ==
    \/ MeritCycle

SpecMerit == MeritInit /\ [][MeritNext]_vars

\* One run of the merit update over the three wallets, in any order.
RankNext ==
    \/ MeritUpdateWallet

SpecRank == RankInit /\ [][RankNext]_vars

\* The decoder handling one log, delivered up to MaxDecoded times.
HandleNext ==
    \/ DecoderHandleMessage
    \/ NextDelivery

SpecHandle == DecodeInit /\ [][HandleNext]_vars

\* The calls in progress on one HttpClient and the monotonic clock.
HttpNext ==
    \/ MonoTick
    \/ \E t \in HttpTasks : HttpCall(t)
    \/ \E t \in HttpTasks : HttpResponse(t)
    \/ \E t \in HttpTasks : HttpBackoffOver(t)

SpecHttp == HttpInit /\ [][HttpNext]_vars

\* One worker process, the signal that stops it, and the event loop running
\* whatever is ready: an iteration in progress ends and a timed wait ends.
LoopNext ==
    \/ SetStop
    \/ LoopStep

SpecLoopFair ==
    /\ LoopInit
    /\ [][LoopNext]_vars
    /\ WF_vars(LoopStep)

\* One worker process, its heartbeat task and the clock.
BeatNext ==
    \/ BeatWorkerStarts
    \/ HeartbeatLoop
    \/ BeatWorkerStops
    \/ BeatTick

SpecBeat == BeatInit /\ [][BeatNext]_vars

\* The outcome evaluator run every RUN_INTERVAL_SECONDS, and the alerts that
\* come of age meanwhile.
QueueNext ==
    \/ EvaluatorRunOnce
    \/ AlertComesOfAge

SpecQueueFair ==
    /\ QueueInit
    /\ [][QueueNext]_vars
    /\ WF_vars(EvaluatorRun({}))

\* The evaluation of one alert over one horizon.
HorizonNext == EvaluateAlertHorizon

SpecHorizon == HorizonInit /\ [][HorizonNext]_vars

\* The merit cycle of the Profiler, run after run.
CycleNext == MeritCycleWallet

SpecCycleFair ==
    /\ CycleInit
    /\ [][CycleNext]_vars
    /\ WF_vars(MeritCycleWallet)

\* The risk worker reading decoded_trades while time passes; trades of each
\* followed token keep arriving.
JobNext ==
    \/ \E token \in TradedTokens : HandleDecodedTrade(token)
    \/ JobTick

SpecJobFair ==
    /\ JobInit
    /\ [][JobNext]_vars
    /\ WF_vars(JobTick)
    /\ \A token \in JobTokens : WF_vars(HandleDecodedTrade(token))

\* Two Profiler instances.
TwinNext ==
    \/ \E i \in Instances : TwinBegin(i)
    \/ \E i \in Instances : TwinProfileWallet(i)
    \/ \E i \in Instances : TwinCommit(i)

SpecTwin == TwinInit /\ [][TwinNext]_vars
(***************************************************************************)
(* Claims about the Alerts worker.                                         *)
(***************************************************************************)
SameKey(a, b) ==
    a.chain = b.chain /\ a.wallet = b.wallet /\ a.token = b.token

Apart(a, b) ==
    IF a.created_at >= b.created_at THEN a.created_at - b.created_at
    ELSE b.created_at - a.created_at

ConvictionPairs(rows) ==
    {p \in (DOMAIN rows) \X (DOMAIN rows) :
        /\ p[1] < p[2]
        /\ rows[p[1]].alert_type = ALERT_TYPE
        /\ rows[p[2]].alert_type = ALERT_TYPE
        /\ SameKey(rows[p[1]], rows[p[2]])}

C2_CooldownConcurrent ==
    \A p \in ConvictionPairs(alerts) :
        Apart(alerts[p[1]], alerts[p[2]]) >= COOLDOWN_MINUTES

\* C3: no alert of any type is created for a wallet whose tier is ignore at
\* the time the alert is created.
C3_NoAlertForIgnoredWallet ==
    \A k \in DOMAIN SessionAlerts(1) :
        SessionAlerts(1)[k].wallet_tier_then # "ignore"

(***************************************************************************)
(* Claims about the Redis stream helpers.                                  *)
(***************************************************************************)
StreamIds == 1..(MaxPublished * (max_retries + 1))

\* C4: a message delivered to a consumer of a group that stops before
\* acknowledging it is read again by a later read of the group, so no
\* message stays pending for ever.
C4_PendingReadAgain ==
    \A k \in StreamIds : (k \in pel) ~> (k \notin pel)

EntriesOf(rows, origin) == {k \in DOMAIN rows : rows[k].origin = origin}

\* C5: a message whose handler fails on every attempt is re-added to its
\* stream with retry_count 1, 2, ..., max_retries, each once; on the failure
\* after that it is added once to the dead-letter stream, with nothing
\* requeued any more; and the entry read is acknowledged after every failed
\* attempt.
C5_RetryThenDeadLetter ==
    /\ \A k \in failed : k \notin pel
    /\ \A k \in DOMAIN stream :
          stream[k].kind = "poison" =>
            LET origin == stream[k].origin
                copies == EntriesOf(stream, origin)
                buried == EntriesOf(dead, origin)
            IN /\ stream[k].retry_count \in 0..max_retries
               /\ \A j \in copies :
                     j # k => stream[j].retry_count # stream[k].retry_count
               /\ stream[k].retry_count > 0 =>
                     \E j \in copies :
                        /\ j \in failed
                        /\ stream[j].retry_count = stream[k].retry_count - 1
               /\ k \in failed =>
                     IF stream[k].retry_count < max_retries
                     THEN \E j \in copies :
                            stream[j].retry_count = stream[k].retry_count + 1
                     ELSE /\ Cardinality(buried) = 1
                          /\ \A j \in buried :
                                dead[j].retry_count = max_retries + 1
               /\ buried # {} =>
                     \E j \in copies :
                        j \in failed /\ stream[j].retry_count = max_retries
    /\ \A k \in DOMAIN dead : dead[k].kind = "poison"

\* A poison message has gone through all its retries into the dead-letter
\* stream.
C5_Witness ==
    /\ Len(dead) > 0
    /\ \E k \in DOMAIN stream : stream[k].retry_count = max_retries

(***************************************************************************)
(* Claims about the listener.                                              *)
(***************************************************************************)
\* C6: a log delivered several times within one hour of its first sight is
\* published to raw_events at most once.
C6_PublishedOnceWithinTtl ==
    \A v \in DedupeValues :
        Cardinality({k \in DOMAIN rawEvents :
                        /\ rawEvents[k].value = v
                        /\ rawEvents[k].seen_at
                             < firstSeen[v] + DEDUPLICATION_TTL_SECONDS}) <= 1

(***************************************************************************)
(* Claims about the outcome evaluator.                                     *)
(***************************************************************************)
OutcomeKeyTaken(rows, row) ==
    \E k \in DOMAIN rows :
        /\ rows[k].alert_id = row.alert_id
        /\ rows[k].horizon_minutes = row.horizon_minutes

\* C7: signal_outcomes holds at most one row per (alert, horizon), also with
\* two evaluators running concurrently; a run inserts nothing for a pair that
\* already has its outcome and leaves the existing rows unchanged.
C7_OneOutcomePerAlertHorizon ==
    [][ /\ \A k \in DOMAIN outcomes :
              k \in DOMAIN outcomes' /\ outcomes'[k] = outcomes[k]
        /\ \A k \in DOMAIN outcomes' :
              k \notin DOMAIN outcomes => ~OutcomeKeyTaken(outcomes, outcomes'[k])
        /\ \A k \in DOMAIN outcomes', j \in DOMAIN outcomes' :
              k # j => \/ outcomes'[k].alert_id # outcomes'[j].alert_id
                       \/ outcomes'[k].horizon_minutes
                            # outcomes'[j].horizon_minutes ]_vars

\* An evaluator is about to commit an outcome for a pair that another
\* evaluator has committed since it read the table.
C7_Witness ==
    \E e \in Evaluators :
        /\ epc[e].step = "scan"
        /\ epc[e].horizon > Len(HORIZONS_MINUTES)
        /\ \E j \in DOMAIN esession[e] : OutcomeKeyTaken(outcomes, esession[e][j])

(***************************************************************************)
(* Claims about the watchlist autopilot.                                   *)
(***************************************************************************)
ChurnStep == wpc = "churn" /\ wpc' = "idle"

ActivePairs(rows, chain, t) ==
    {p \in Pairs :
        /\ PairChain(p) = chain
        /\ rows[p].source # "absent"
        /\ rows[p].expires_at > t}

\* C8: no churn step of the autopilot changes expires_at or priority of a
\* seed_pack pair.
C8_ChurnKeepsSeedPack ==
    [][ChurnStep =>
          \A p \in Pairs :
              watchPairs[p].source = "seed_pack" =>
                  /\ watchPairs'[p].expires_at = watchPairs[p].expires_at
                  /\ watchPairs'[p].priority = watchPairs[p].priority]_vars

\* A churn step has demoted an autopilot pair next to a seed_pack pair.
C8_Witness ==
    /\ wpc = "idle"
    /\ \E p \in Pairs : watchPairs[p].source = "seed_pack"
    /\ \E p \in Pairs :
          /\ watchPairs[p].source = "autopilot"
          /\ watchPairs[p].priority = 0
          /\ watchPairs[p].expires_at = wnow

\* C9: after the churn step the active pairs of each chain, seed_pack pairs
\* included, are at most the cap, and every seed_pack pair active before the
\* step is still active.
C9_ChurnEnforcesCap ==
    [][ChurnStep =>
          \A chain \in Chains :
              /\ Cardinality(ActivePairs(watchPairs', chain, now))
                    <= autopilot_max_pairs_per_chain
              /\ \A p \in ActivePairs(watchPairs, chain, now) :
                    watchPairs[p].source = "seed_pack" =>
                        p \in ActivePairs(watchPairs', chain, now)]_vars

(***************************************************************************)
(* Claims about the decoder.                                               *)
(***************************************************************************)
\* C10: every record decode_raw_event returns with decode_confidence of at
\* least 0.6 has a pair_address.
C10_ConfidentRecordHasPair ==
    drecord # NoRecord =>
        (drecord.decode_confidence >= MIN_PUBLISH_CONFIDENCE
            => drecord.pair_address # "")

\* A record has been decoded at 0.6 or more.
C10_Witness ==
    /\ drecord # NoRecord
    /\ drecord.decode_confidence >= MIN_PUBLISH_CONFIDENCE
    /\ drecord.pair_address # ""


(***************************************************************************)
(* The sessions of the risk worker and the decoder.                        *)
(***************************************************************************)
EntriesOfLog(log) == {log[i] : i \in 1..Len(log)}

\* C11: when handling a message raises in the decoder or the risk worker,
\* the session has been rolled back by the time retry_or_dead_letter is
\* called, so every message finds a clean session.
C11_RolledBackBeforeRetry ==
    \A e \in EntriesOfLog(rhandled) \cup EntriesOfLog(bhandled) :
        /\ e.outcome = "retried" => e.session_at_retry = "clean"
        /\ e.session_before = "clean"

\* The risk jobs stored for a token, by the time they were stored.
StoredTimes(token) ==
    {e.at : e \in {x \in EntriesOfLog(rhandled) :
                       x.token = token /\ x.stored # NoRiskRow}}

\* C13: once the risk worker has stored jobs for a token at two or more
\* times, the snapshots the evaluator extracts from the TokenRisk row are one
\* per time.
C13_HistoryKeepsEverySnapshot ==
    \A token \in Tokens :
        Cardinality(StoredTimes(token)) >= 2 =>
            LET snapshots == ExtractRiskSnapshots(riskRows[token])
            IN {snapshots[i].updated_at : i \in 1..Len(snapshots)}
                   = StoredTimes(token)

C12_ActivePairSubscribed ==
    \A p \in Pairs :
        (ActivePairs(watchPairs, PairChain(p), now) = {p})
            ~> (p \in lfilter \/ p \notin ActivePairs(watchPairs, PairChain(p), now))

(***************************************************************************)
(* The NetEV gate and the pool alerts of the Alerts worker.                *)
(***************************************************************************)
\* Every Alert row, committed or still in a session.
AllAlertRows ==
    EntriesOfLog(alerts) \cup UNION {EntriesOfLog(asession[i]) : i \in Instances}

\* C15: every trade_conviction alert comes from a trade with a positive
\* usd_value whose netev_usd = size_usd * expected_move - gas_cost_usd
\* - size_usd * slippage reaches the chain's minimum USD profit and whose
\* netev_usd / size_usd reaches the chain's minimum ROI.
C15_ConvictionPassedNetev ==
    \A a \in AllAlertRows :
        a.alert_type = ALERT_TYPE =>
            LET r == a.reasons
                netev_usd == r.size_usd * r.expected_move
                             - r.gas_cost_usd * 10000
                             - r.size_usd * r.slippage
            IN /\ r.passed
               /\ r.size_usd > 0
               /\ netev_usd >= ChainMinUsdProfit(a.chain) * 10000
               /\ netev_usd >= ChainMinRoi(a.chain) * r.size_usd

C15_Witness ==
    \E a \in EntriesOfLog(alerts) :
        /\ a.alert_type = ALERT_TYPE
        /\ a.reasons.expected_move = DerivedMoveMax
        /\ a.reasons.gas_cost_usd = 80

\* C16: no two pool_activity alerts of the same (chain, wallet, token) are
\* less than 60 minutes apart, however many cycles rescan the same buy.
C16_PoolAlertCooldown ==
    \A a, b \in {x \in DOMAIN alerts : alerts[x].alert_type = POOL_ALERT_TYPE} :
        (a < b /\ SameKey(alerts[a], alerts[b])) =>
            alerts[b].created_at >= alerts[a].created_at + COOLDOWN_MINUTES

(***************************************************************************)
(* The Profiler's tables.                                                  *)
(***************************************************************************)
\* A Profiler run that comes after an earlier one.
LaterProfilerRun == plast.runs >= 1 /\ plast'.runs = plast.runs + 1

C18_IgnoredWalletHasNoPositions ==
    \A w \in Wallets :
        tiers[w] = "ignore" => \A k \in DOMAIN positions : positions[k].wallet # w

C20_MeritMonotone ==
    msample > 0 =>
        \A x, y \in mruns :
            /\ x.avg_contribution <= y.avg_contribution
                   => x.merit_score <= y.merit_score
            /\ (x.avg_contribution >= merit_return_clamp_max
                    /\ y.avg_contribution >= merit_return_clamp_max)
                   => x.merit_score = y.merit_score
            /\ (x.avg_contribution <= merit_return_clamp_min
                    /\ y.avg_contribution <= merit_return_clamp_min)
                   => x.merit_score = y.merit_score

C20_Witness ==
    /\ msample > 0
    /\ \E x, y \in mruns :
          /\ x.avg_contribution < y.avg_contribution
          /\ x.merit_score < y.merit_score
    /\ \E x, y \in mruns :
          /\ x.avg_contribution < y.avg_contribution
          /\ x.avg_contribution >= merit_return_clamp_max
          /\ x.merit_score = y.merit_score

C23_CircuitBreaker ==
    /\ (copen # NoTime) <=> (cfail >= circuit_breaker_threshold)
    /\ clast.event = "failed" /\ clast.opened_until # NoTime =>
           clast.opened_until = cnow + circuit_breaker_timeout
    /\ clast.event = "sent" => ~clast.was_open
    /\ clast.event = "refused" => clast.was_open
    /\ (clast.event = "sent" /\ ctask[clast.task].attempt = 1
            /\ ctask[clast.task].outer = 1) => clast.failures < circuit_breaker_threshold
    /\ clast.event = "succeeded" => cfail = 0

\* C24: once the stop event is set, a worker loop begins no further
\* iteration and terminates, also when the event is set during a reconnect
\* backoff, an idle wait or the sleep between two cycles.
C24_StopTerminates ==
    /\ [](slate = 0)
    /\ sstop ~> (spc = "exited")

\* The listener was stopped in its reconnect backoff and has returned.
C24_Witness ==
    /\ sstop
    /\ sstopAt = "backoff_wait"
    /\ spc = "exited"

\* C25: while a worker is running, its heartbeat key has been written within
\* the last 15 seconds and is present; the key is gone 60 seconds after the
\* worker has stopped.
C25_HeartbeatWhileAlive ==
    /\ (balive = "running" /\ bnext # bnow) =>
           /\ bkey # NoTime
           /\ bwritten # NoTime
           /\ bnow - bwritten <= HEARTBEAT_INTERVAL_SECONDS
    /\ (balive = "stopped" /\ bnow >= bstopped + HeartbeatTtl) =>
           bkey = NoTime

\* C26: the listener's wait before reconnecting after the n-th consecutive
\* failure is min(2^(n-1), 30) seconds, n counting the failures since the
\* last message received on a connection.
C26_BackoffDoubles ==
    swait # NoWait =>
        swait.seconds = Min(2 ^ (swait.n - 1), RECONNECT_MAX_SECONDS)

\* C27: every alert that has a token_address and whose age has reached a
\* horizon gets a SignalOutcome row for that horizon after finitely many
\* evaluator runs, however many older alerts still lack one.
C27_EveryAlertEvaluated ==
    \A k \in 1..MaxQueue, h \in DOMAIN HORIZONS_MINUTES :
        (k \in DOMAIN qalerts /\ qalerts[k].token_address # "")
            ~> (<<k, HORIZONS_MINUTES[h]>> \in qoutcomes)

\* C28: when fewer than two risk snapshots fall inside the window, the
\* SignalOutcome has was_sellable_entire_window = null, whatever the price
\* series holds.
C28_NullWhenRiskInsufficient ==
    (houtcome # NoOutcome /\ houtcome.snapshots_in_window < 2)
        => houtcome.was_sellable_entire_window = "None"

\* C29: a SignalOutcome with trap_flag = true has
\* was_sellable_entire_window = false, whatever keys the snapshots carry.
C29_TrapNeverSellable ==
    (houtcome # NoOutcome /\ houtcome.trap_flag)
        => houtcome.was_sellable_entire_window = "False"

\* C30: the Profiler appends a wallet_tier alert for a wallet only when the
\* computed tier differs from the tier of the wallet's previous wallet_tier
\* alert, however far apart the runs are: no two wallet_tier alerts of a
\* wallet that follow each other carry the same tier.
C30_TierAlertOnlyOnChange ==
    \A i, j \in DOMAIN alerts :
        (/\ i < j
         /\ alerts[i].alert_type = TIER_ALERT_TYPE
         /\ alerts[j].alert_type = TIER_ALERT_TYPE
         /\ alerts[i].wallet = alerts[j].wallet
         /\ \A k \in (i + 1)..(j - 1) :
                ~(alerts[k].alert_type = TIER_ALERT_TYPE
                  /\ alerts[k].wallet = alerts[i].wallet))
            => alerts[i].tier # alerts[j].tier

(***************************************************************************)
(* Claims C31 to C40                                                       *)
(***************************************************************************)
\* C31: once the Trade row of a key has been inserted, handling the same raw
\* event again leaves the decoded fields of the row as they were, also when
\* the token lookups answer differently on the later attempt.
C31_TradeImmutable ==
    [][\A t \in TxHashes :
          htrades[t] # NoConfidence => htrades'[t] = htrades[t]]_vars

\* C32: when the DexScreener lookup fails for one alert, the evaluator run
\* still persists the SignalOutcome rows of the other alerts it evaluated.
C32_OtherOutcomesPersisted ==
    \A p \in qlast.evaluated :
        qalerts[p[1]].token_address \notin qlast.failed => p \in qoutcomes

\* C33: a merit update never changes the tier of a wallet whose tier is
\* ignore, whatever its outcomes and merit score are.
C33_IgnoreStaysIgnore ==
    [][cwallet.tier = "ignore" => cwallet'.tier = "ignore"]_vars

\* C34: with the outcomes unchanged, repeated merit cycles bring the tier to
\* a value that later cycles no longer change.
C34_TierSettles ==
    <>[][cwallet'.tier = cwallet.tier]_vars

\* C35: every record the decoder writes has price and usd_value null; the
\* NetEV gate fails for it whatever the outcome average and the gas quote
\* are, so no trade_conviction alert comes of it, and folding it into a
\* position does not increase the quantity.
C35_DecodedTradesUnpriced ==
    drecord # NoRecord =>
        /\ drecord.price = NoFloat
        /\ drecord.usd_value = NoFloat
        /\ DecodedTrade(drecord).usd <= 0
        /\ \A avg \in OutcomeAverages, gas \in GasQuotes :
              ~NetevGate(DecodedTrade(drecord), avg, gas)
        /\ \A pos \in HeldPositions :
              ApplyTrade(pos, DecodedTrade(drecord)).quantity <= pos.quantity

\* A decoded buy with its amount and wallet has been stored and published.
C35_Witness ==
    /\ drecord # NoRecord
    /\ drecord.side = "buy"
    /\ drecord.amount = DecodedAmount
    /\ drecord.wallet_address # ""
    /\ drecord.token_address # ""
    /\ hlast.outcome = "published"
    /\ htrades[hlast.tx_hash] = drecord.decode_confidence

\* C36: an autopilot ingest that finds a pair stored with source seed_pack
\* neither moves its expires_at to an earlier time nor lowers its priority.
C36_SeedPairKept ==
    [][(wpc = "idle" /\ wpc' = "churn")
          => \A p \in Pairs :
                watchPairs[p].source = "seed_pack"
                    => /\ watchPairs'[p].expires_at >= watchPairs[p].expires_at
                       /\ watchPairs'[p].priority >= watchPairs[p].priority]_vars

\* C37: while decoded trades of a token keep arriving, a risk job for it is
\* published again once 60 seconds have passed since its previous job, also
\* while trades of unseen tokens keep arriving.
C37_RiskJobRepublished ==
    \A token \in JobTokens :
        (jage[token] # NoTime /\ jage[token] >= RISK_DEDUPLICATION_TTL_SECONDS)
            ~> (jage[token] = 0)

\* C38: a buy gives rise to at most one trade_conviction alert over all the
\* cycles that find it inside the lookback: no two trade_conviction alerts
\* name the same trade.
C38_OneAlertPerTrade ==
    \A i, j \in DOMAIN alerts :
        (/\ i < j
         /\ alerts[i].alert_type = ALERT_TYPE
         /\ alerts[j].alert_type = ALERT_TYPE)
            => alerts[i].trade # alerts[j].trade

\* C39: with two Profiler instances running run_once side by side, the
\* positions table holds at most one row per (chain, wallet, token) and the
\* wallet_metrics table at most one row per (chain, wallet).
C39_OneRowPerKey ==
    /\ \A j, k \in DOMAIN tpositions :
           (tpositions[j].wallet = tpositions[k].wallet
            /\ tpositions[j].token = tpositions[k].token) => j = k
    /\ \A j, k \in DOMAIN tmetrics :
           tmetrics[j].wallet = tmetrics[k].wallet => j = k

\* C40: every log recorded in the raw_events dedupe set is also published
\* to raw_events: a value that is in the set while no listener is between
\* its SADD and its XADD has an entry in raw_events, so that a redelivery
\* is dropped as a duplicate only for a log that was published.
C40_RecordedIsPublished ==
    \A v \in dedupeSet :
        (\A l \in Listeners : lpc[l].value # v)
            => \E k \in DOMAIN rawEvents : rawEvents[k].value = v
====
